---- MODULE Spec2Model ----
(***************************************************************************)
(* Model of predict_order_notifier.py: the User Store (UserDatabase), the  *)
(* command handlers, the startup pass and the polling loop of              *)
(* OrderNotifierBot, together with the venue and the clock they observe.   *)
(***************************************************************************)
EXTENDS Integers, Sequences, FiniteSets, TLC

VARIABLES
    users,        \* UserDatabase.users: chat id -> registration record
    userOrder,    \* insertion order of the keys of UserDatabase.users
    disk,         \* content of users.json (the last document written)
    diskFlaky,    \* environment: writes of users.json may fail in this run
    malformed,    \* environment: the venue's payloads carry a null market object in this run
    marketFlaky,  \* environment: get_market may answer without success in this run
    market_cache, \* OrderNotifierBot.market_cache: market id -> response
    market_cache_time, \* OrderNotifierBot.market_cache_time: market id -> time of the fetch
    marketGot,    \* the get_market_cached call of the last step: its market id, the
                  \* get_market answers it fetched and the response it returned
    phase,        \* OrderNotifierBot.run: "init" (startup pass) or "run"
    initQueue,    \* chats the startup pass has still to initialise
    saving,       \* thread -> the file object its _save holds open, with the text dumped
    last_update_id, \* TelegramBot.last_update_id
    updates,      \* the answer of the last getUpdates call and the offset it asked for
    fills,        \* venue: order matches, newest first
    openOrders,   \* venue: ids of the orders that are open
    book,         \* venue: the answer of get_orderbook, its best ask and best bid
    clock,        \* wall clock in seconds
    pollPc,       \* polling thread: position in poll_orders and its checks
    pollUsers,    \* polling thread: snapshot taken by get_all_active_users
    pollQueue,    \* polling thread: chats of the snapshot still to visit
    pollChat,     \* polling thread: chat_id of the check in progress
    pollResp,     \* polling thread: items of the venue response still to do
    pollSeen,     \* polling thread: the list object held by add_seen_*
    cmdPc,        \* inbound thread: "wait" or "reply"
    cmdReply,     \* inbound thread: the reply the handler is about to send
    sent,         \* the send_message calls made by the last step, in order
    everSeenTx,   \* history: <<chat, tx>> recorded as seen by a finished handling
    startKnown,   \* history: <<chat, kind, id>> the venue held at startup
    alertedAt,    \* history: when the last price alert of <<chat, order>> was sent since the
                  \* registration of the chat was made
    sinceReg,     \* history: the <<kind, id>> added to the seen lists of a chat since its registration
    lastAlertAt,  \* history: <<chat, order>> -> time of the last alert sent
    lastFill,     \* history: chat -> matches its last fill check fetched
    pollRepeat,   \* history: this fill check fetched the same matches as the last
    pollFound     \* history: the lookup of the check in progress found the item recorded (line
                  \* 798: the id in the seen-fill list; line 863: a cooldown in force)

vars == <<users, userOrder, disk, diskFlaky, malformed, marketFlaky, market_cache,
          market_cache_time, marketGot, phase, initQueue, saving, last_update_id, updates,
          fills, openOrders, book,
          clock, pollPc, pollUsers, pollQueue, pollChat, pollResp, pollSeen,
          cmdPc, cmdReply, sent, everSeenTx, startKnown, sinceReg, lastAlertAt, alertedAt,
          lastFill, pollRepeat, pollFound>>

storeVars == <<users, userOrder, disk>>
ioVars == <<saving, last_update_id, updates>>
venueVars == <<fills, openOrders, book, diskFlaky, malformed, marketFlaky>>
cacheVars == <<market_cache, market_cache_time>>
pollVars == <<pollPc, pollUsers, pollQueue, pollChat, pollResp, pollSeen>>
cmdVars == <<cmdPc, cmdReply>>
histVars == <<everSeenTx, startKnown, sinceReg, lastAlertAt, alertedAt, lastFill, pollRepeat,
              pollFound>>

-----------------------------------------------------------------------------
(* Program constants *)

SeenCap == 500
AlertCap == 100
CooldownSeconds == 3600
BandPct == 10

(* Bounds of the model *)

MaxClock == 5400
TickSeconds == 1800
\* the largest update_id the messaging API hands out
MaxUpdateId == 4
\* the calls of record_price_alert that are followed
MaxRecords == 3

Chats == {"c1", "c2"}
\* transaction hashes and order hashes that the venue hands out
Tx == {1, 2}
Orders == {11}
\* every order hash of the venue: those above and the orders of the band check
OrderIds == {11, 12, 13, 14}
\* orders that the price-alert check passes over: a MARKET order, an order
\* without market id, an order without hash, a BUY order with takerAmount 0 and
\* a SELL order with makerAmount 0
SkippedOrders == {15, 16, 17, 18, 19}
VenueOrderIds == OrderIds \cup SkippedOrders

NoChat == "none"
NoId == 0
NoTime == -1
EmptyMap == [x \in {} |-> NoTime]

Range(s) == {s[i] : i \in 1..Len(s)}

-----------------------------------------------------------------------------
(* Wallet addresses are sequences of one-character strings. *)

HexDigits == {"0", "1", "2", "3", "4", "5", "6", "7", "8", "9",
              "a", "b", "c", "d", "e", "f", "A", "B", "C", "D", "E", "F"}

UpperHex == <<"A", "B", "C", "D", "E", "F", "0", "1", "2", "3", "4", "5", "6", "7", "8", "9">>
LowerHex == <<"1", "2", "3", "4", "5", "6", "7", "8", "9", "0", "a", "b", "c", "d", "e", "f">>

\* 0xABCDEF0123456789ABCDEF0123456789ABCDEF01
AddrUpper == <<"0", "x">> \o [i \in 1..40 |-> UpperHex[((i - 1) % 16) + 1]]
\* 0x1234567890abcdef1234567890abcdef12345678
AddrLower == <<"0", "x">> \o [i \in 1..40 |-> LowerHex[((i - 1) % 16) + 1]]
\* 0x123
AddrShort == <<"0", "x", "1", "2", "3">>
\* 41 hexadecimal characters after 0x
AddrLong == AddrLower \o <<"9">>
\* a non-hexadecimal character in an address of the right length
AddrNonHex == [AddrLower EXCEPT ![10] = "g"]
\* 0X prefix in upper case
AddrBadPrefix == [AddrLower EXCEPT ![2] = "X"]
\* a valid address with blanks around it
AddrPadded == <<" ">> \o AddrUpper \o <<" ">>
NoArgs == <<>>

\* str.lower() on the characters that occur
LowerChar(ch) ==
    CASE ch = "A" -> "a" [] ch = "B" -> "b" [] ch = "C" -> "c"
      [] ch = "D" -> "d" [] ch = "E" -> "e" [] ch = "F" -> "f"
      [] ch = "X" -> "x" [] ch = "S" -> "s" [] ch = "T" -> "t"
      [] ch = "O" -> "o" [] ch = "P" -> "p" [] OTHER -> ch

Lower(s) == [i \in 1..Len(s) |-> LowerChar(s[i])]

IsSpace(ch) == ch \in {" ", "\n"}

RECURSIVE LStrip(_)
LStrip(s) == IF s # <<>> /\ IsSpace(Head(s)) THEN LStrip(Tail(s)) ELSE s

RECURSIVE RStrip(_)
RStrip(s) == IF s # <<>> /\ IsSpace(s[Len(s)]) THEN RStrip(SubSeq(s, 1, Len(s) - 1)) ELSE s

\* str.strip()
Strip(s) == RStrip(LStrip(s))

\* a validation that accepts an address of fewer than 40 hexadecimal characters
is_valid_eth_address_short(address) ==
    /\ Len(address) >= 3
    /\ address[1] = "0" /\ address[2] = "x"
    /\ \A i \in 3..Len(address) : i <= 42 => address[i] \in HexDigits

\* re.match(r'^0x[a-fA-F0-9]{40}$', address): $ also matches before one final newline
is_valid_eth_address(address) ==
    LET n == Len(address)
        body == IF n = 43 /\ address[43] = "\n" THEN SubSeq(address, 1, 42) ELSE address
    IN  /\ Len(body) = 42
        /\ body[1] = "0" /\ body[2] = "x"
        /\ \A i \in 3..42 : body[i] \in HexDigits

WalletA == Lower(AddrUpper)
WalletB == AddrLower

-----------------------------------------------------------------------------
(* UserDatabase *)

\* seen[-n:]
LastN(s, n) == IF Len(s) <= n THEN s ELSE SubSeq(s, Len(s) - n + 1, Len(s))

\* the record register_user stores (username and registered_at are not modelled)
NewUser(wallet_address) ==
    [wallet_address |-> Lower(wallet_address),
     seen_tx_hashes |-> <<>>,
     seen_order_hashes |-> <<>>,
     price_alerts_sent |-> EmptyMap,
     active |-> TRUE]

\* self.users[chat_id] = {...}
register_user(u, chat_id, wallet_address) ==
    (chat_id :> NewUser(wallet_address)) @@ u

\* a dict keeps the position of a key that is assigned again
KeyAssigned(ord, chat_id) ==
    IF chat_id \in Range(ord) THEN ord ELSE Append(ord, chat_id)

KeyDeleted(ord, chat_id) == SelectSeq(ord, LAMBDA c : c # chat_id)

\* an unregister_user that deactivates the registration and keeps the key
unregister_user_deactivating(u, chat_id) ==
    IF chat_id \in DOMAIN u THEN [u EXCEPT ![chat_id].active = FALSE] ELSE u

\* del self.users[chat_id]
unregister_user(u, chat_id) ==
    [c \in DOMAIN u \ {chat_id} |-> u[c]]

\* get_all_active_users, in dict order
ActiveChats(u, ord) == SelectSeq(ord, LAMBDA c : c \in DOMAIN u /\ u[c].active)

\* a has_seen_tx that never finds the id
has_seen_tx_never(u, chat_id, tx_hash) == FALSE

has_seen_tx(u, chat_id, tx_hash) ==
    IF chat_id \in DOMAIN u THEN tx_hash \in Range(u[chat_id].seen_tx_hashes) ELSE FALSE

has_seen_order(u, chat_id, order_hash) ==
    IF chat_id \in DOMAIN u THEN order_hash \in Range(u[chat_id].seen_order_hashes) ELSE FALSE

\* an append that loses the id
SeenAppend_lost(seen, h) == seen

\* seen.append(h): the list object grows in place
SeenAppend(seen, h) == Append(seen, h)

\* a truncation that keeps everything
SeenTruncate_none(seen) == seen

\* a truncation that keeps the 500 oldest
SeenTruncate_oldest(seen) == SubSeq(seen, 1, SeenCap)

\* seen[-500:]
SeenTruncate(seen) == LastN(seen, SeenCap)

\* add_seen_tx run without interruption
add_seen_tx(u, chat_id, tx_hash) ==
    IF chat_id \in DOMAIN u /\ tx_hash \notin Range(u[chat_id].seen_tx_hashes)
    THEN [u EXCEPT ![chat_id].seen_tx_hashes = SeenTruncate(SeenAppend(@, tx_hash))]
    ELSE u

\* add_seen_order run without interruption
add_seen_order(u, chat_id, order_hash) ==
    IF chat_id \in DOMAIN u /\ order_hash \notin Range(u[chat_id].seen_order_hashes)
    THEN [u EXCEPT ![chat_id].seen_order_hashes = SeenTruncate(SeenAppend(@, order_hash))]
    ELSE u

\* a can_send_price_alert that knows no cooldown
can_send_price_alert_uncooled(u, chat_id, order_hash, now) == chat_id \in DOMAIN u

\* (now - last_time).total_seconds() > cooldown_seconds
can_send_price_alert(u, chat_id, order_hash, now) ==
    IF chat_id \notin DOMAIN u THEN FALSE
    ELSE IF order_hash \notin DOMAIN u[chat_id].price_alerts_sent THEN TRUE
    ELSE now - u[chat_id].price_alerts_sent[order_hash] > CooldownSeconds

\* a clean-up that drops the entries with the newest timestamps
RECURSIVE DropOldest_newest(_)
DropOldest_newest(alerts) ==
    IF Cardinality(DOMAIN alerts) <= AlertCap THEN alerts
    ELSE LET newest == CHOOSE o \in DOMAIN alerts :
                           \A p \in DOMAIN alerts : alerts[o] >= alerts[p]
         IN  DropOldest_newest([o \in DOMAIN alerts \ {newest} |-> alerts[o]])

\* self.users[chat_id]['price_alerts_sent'][order_hash] = now, then keep the 100 newest
RECURSIVE DropOldest(_)
DropOldest(alerts) ==
    IF Cardinality(DOMAIN alerts) <= AlertCap THEN alerts
    ELSE LET oldest == CHOOSE o \in DOMAIN alerts :
                           \A p \in DOMAIN alerts : alerts[o] <= alerts[p]
         IN  DropOldest([o \in DOMAIN alerts \ {oldest} |-> alerts[o]])

record_price_alert(u, chat_id, order_hash, now) ==
    IF chat_id \in DOMAIN u
    THEN [u EXCEPT ![chat_id].price_alerts_sent = DropOldest((order_hash :> now) @@ @)]
    ELSE u

\* _save: the document is rewritten in full, or the write fails and the file stays
SaveResults(u, d) == IF diskFlaky THEN {u, d} ELSE {u}

\* a store operation followed by _save when it changed the store
Saved(st, u2) ==
    IF u2 = st.u THEN {st} ELSE {[u |-> u2, d |-> dd] : dd \in SaveResults(u2, st.d)}

\* a startup pass that records no match
AddAllTx_none(sts, chat_id, hs) == sts

RECURSIVE AddAllTx(_, _, _)
AddAllTx(sts, chat_id, hs) ==
    IF hs = <<>> THEN sts
    ELSE AddAllTx(UNION {Saved(st, add_seen_tx(st.u, chat_id, Head(hs))) : st \in sts},
                  chat_id, Tail(hs))

RECURSIVE AddAllOrders(_, _, _)
AddAllOrders(sts, chat_id, hs) ==
    IF hs = <<>> THEN sts
    ELSE AddAllOrders(UNION {Saved(st, add_seen_order(st.u, chat_id, Head(hs))) : st \in sts},
                      chat_id, Tail(hs))

-----------------------------------------------------------------------------
(* Venue *)

\* every modelled fill and order belongs to the first wallet
TxWallet(t) == WalletA
OrderWallet(o) == WalletA

MarketId == 7

\* side (0 BUY, 1 SELL), makerAmount and takerAmount of the orders: BUY at 0.50,
\* SELL at 0.50, SELL at 29/30 and BUY at 0.30
OrderTerms ==
    (11 :> [side |-> 0, makerAmount |-> 50, takerAmount |-> 100])
    @@ (12 :> [side |-> 1, makerAmount |-> 100, takerAmount |-> 50])
    @@ (13 :> [side |-> 1, makerAmount |-> 30, takerAmount |-> 29])
    @@ (14 :> [side |-> 0, makerAmount |-> 3, takerAmount |-> 10])
    @@ (15 :> [side |-> 0, makerAmount |-> 50, takerAmount |-> 100])
    @@ (16 :> [side |-> 0, makerAmount |-> 50, takerAmount |-> 100])
    @@ (17 :> [side |-> 0, makerAmount |-> 50, takerAmount |-> 100])
    @@ (18 :> [side |-> 0, makerAmount |-> 50, takerAmount |-> 0])
    @@ (19 :> [side |-> 1, makerAmount |-> 0, takerAmount |-> 50])

\* the fields of an open order that the checks read; NoId: the field is missing
OrderData(o) ==
    [hash |-> IF o = 17 THEN NoId ELSE o,
     marketId |-> IF o = 16 THEN NoId ELSE MarketId,
     side |-> OrderTerms[o].side,
     strategy |-> IF o = 15 THEN "MARKET" ELSE "LIMIT",
     makerAmount |-> OrderTerms[o].makerAmount, takerAmount |-> OrderTerms[o].takerAmount]

RECURSIVE SortedSeq(_)
SortedSeq(S) ==
    IF S = {} THEN <<>>
    ELSE LET m == CHOOSE x \in S : \A y \in S : x <= y
         IN  <<m>> \o SortedSeq(S \ {m})

\* data of get_order_matches(wallet)
MatchesFor(wallet) == SelectSeq(fills, LAMBDA t : TxWallet(t) = wallet)

\* data of get_open_orders(wallet)
OpenOrdersFor(wallet) == SortedSeq({o \in openOrders : OrderWallet(o) = wallet})

\* an orderbook: whether get_orderbook answers with success, and the best ask
\* and the best bid in hundredths (0: the side is empty)
Book(ok, ask, bid) == [ok |-> ok, ask |-> ask, bid |-> bid]

StartBook == Book(TRUE, 52, 48)

Books ==
    {StartBook, Book(FALSE, 52, 48), Book(TRUE, 0, 0), Book(TRUE, 49, 51),
     Book(TRUE, 55, 45), Book(TRUE, 60, 40), Book(TRUE, 33, 87)}

\* the orderbooks above and one whose top prices are below zero
VenueBooks == Books \cup {Book(TRUE, -52, -48)}

-----------------------------------------------------------------------------
(* Floats *)

(* Python floats are IEEE 754 binary64 numbers, rounded to nearest, ties to
   even.  Their exact values need more than the 32 bits of an integer here, so
   a natural number is a sequence of limbs in base 2^15, least significant
   first, without leading zero limb, and a float is [neg, m, e] with the
   value (-1)^neg * m * 2^e.  Overflow and subnormals are out of the range of
   prices and percentages. *)

LimbBits == 15
Limb == 32768
MantissaBits == 53

\* F(v) and F(v, w), with v and w computed once
With(v, F(_)) == CHOOSE r \in {F(x) : x \in {v}} : TRUE
With2(v, w, F(_, _)) == CHOOSE r \in {F(x, y) : x \in {v}, y \in {w}} : TRUE

RECURSIVE Pow2(_)
Pow2(k) == IF k = 0 THEN 1 ELSE 2 * Pow2(k - 1)

RECURSIVE IntBitLen(_)
IntBitLen(n) == IF n = 0 THEN 0 ELSE 1 + IntBitLen(n \div 2)

\* a without its leading zero limbs
BNorm(a) ==
    LET nz == {i \in 1..Len(a) : a[i] # 0}
    IN  IF nz = {} THEN <<>>
        ELSE SubSeq(a, 1, CHOOSE i \in nz : \A j \in nz : j <= i)

RECURSIVE BFromInt(_)
BFromInt(n) == IF n = 0 THEN <<>> ELSE <<n % Limb>> \o BFromInt(n \div Limb)

BDigit(a, i) == IF i <= Len(a) THEN a[i] ELSE 0

RECURSIVE BCmpFrom(_, _, _)
BCmpFrom(a, b, i) ==
    IF i = 0 THEN 0
    ELSE IF a[i] < b[i] THEN -1
    ELSE IF a[i] > b[i] THEN 1
    ELSE BCmpFrom(a, b, i - 1)

\* -1, 0, 1 as a < b, a = b, a > b
BCmp(a, b) ==
    IF Len(a) < Len(b) THEN -1
    ELSE IF Len(a) > Len(b) THEN 1
    ELSE BCmpFrom(a, b, Len(a))

RECURSIVE BAddFrom(_, _, _, _)
BAddFrom(a, b, i, carry) ==
    IF i > Len(a) /\ i > Len(b)
    THEN (IF carry = 0 THEN <<>> ELSE <<carry>>)
    ELSE LET s == BDigit(a, i) + BDigit(b, i) + carry
         IN  <<s % Limb>> \o BAddFrom(a, b, i + 1, s \div Limb)

BAdd(a, b) == BAddFrom(a, b, 1, 0)

RECURSIVE BSubFrom(_, _, _, _)
BSubFrom(a, b, i, borrow) ==
    IF i > Len(a) THEN <<>>
    ELSE LET s == a[i] - BDigit(b, i) - borrow
         IN  IF s < 0 THEN <<s + Limb>> \o BSubFrom(a, b, i + 1, 1)
             ELSE <<s>> \o BSubFrom(a, b, i + 1, 0)

\* a - b for a >= b
BSub(a, b) == With(BSubFrom(a, b, 1, 0), BNorm)

RECURSIVE BMulFrom(_, _, _, _)
BMulFrom(a, k, i, carry) ==
    IF i > Len(a)
    THEN (IF carry = 0 THEN <<>> ELSE <<carry>>)
    ELSE LET p == a[i] * k + carry
         IN  <<p % Limb>> \o BMulFrom(a, k, i + 1, p \div Limb)

\* a * k for 0 <= k < 2^15
BMulSmall(a, k) == With(BMulFrom(a, k, 1, 0), BNorm)

\* a * 2^s
BShl(a, s) ==
    IF a = <<>> THEN <<>>
    ELSE [i \in 1..(s \div LimbBits) |-> 0] \o BMulSmall(a, Pow2(s % LimbBits))

\* a \div 2^s
BShr(a, s) ==
    LET k == s \div LimbBits
        r == s % LimbBits
        n == Len(a) - k
    IN  IF n <= 0 THEN <<>>
        ELSE With([i \in 1..n |->
                     (a[k + i] \div Pow2(r))
                         + (BDigit(a, k + i + 1) % Pow2(r)) * Pow2(LimbBits - r)], BNorm)

BBitLen(a) == IF a = <<>> THEN 0 ELSE LimbBits * (Len(a) - 1) + IntBitLen(a[Len(a)])

\* bit i of a, bit 0 the least significant
BBit(a, i) == (BDigit(a, (i \div LimbBits) + 1) \div Pow2(i % LimbBits)) % 2

\* one step of long division: bit i of n comes down, st = [q, r] so far
BDivStep(st, n, d, i) ==
    With(BMulFrom(st.r, 2, 1, BBit(n, i)),
         LAMBDA r2 : IF BCmp(r2, d) >= 0
                     THEN [q |-> BMulFrom(st.q, 2, 1, 1), r |-> BSub(r2, d)]
                     ELSE [q |-> BMulFrom(st.q, 2, 1, 0), r |-> r2])

\* long division over the bits hi down to lo of n, the upper half of them first
RECURSIVE BDivRange(_, _, _, _, _)
BDivRange(st, n, d, hi, lo) ==
    IF hi = lo THEN BDivStep(st, n, d, hi)
    ELSE With(lo + ((hi - lo + 1) \div 2),
              LAMBDA mid : With(BDivRange(st, n, d, hi, mid),
                                LAMBDA s : BDivRange(s, n, d, mid - 1, lo)))

\* quotient and remainder of n by d, n > 0 and d > 0
BDivMod(n, d) ==
    With(BBitLen(n) - 1, LAMBDA hi : BDivRange([q |-> <<>>, r |-> <<>>], n, d, hi, 0))

FZero == [neg |-> FALSE, m |-> <<>>, e |-> 0]

\* q rounded to its leading 53 bits, ties to even; the division that gave q
\* was exact or not
FRoundQuotient(neg, q, exact, e) ==
    With(BBitLen(q) - MantissaBits,
         LAMBDA drop :
             With2(BShr(q, drop), BShl(<<1>>, drop - 1),
                   LAMBDA top, half :
                       With(BSub(q, BShl(top, drop)),
                            LAMBDA low :
                                LET c == BCmp(low, half)
                                    up == c > 0 \/ (c = 0 /\ (~exact \/ BBit(top, 0) = 1))
                                IN  [neg |-> neg,
                                     m |-> IF up THEN BAdd(top, <<1>>) ELSE top,
                                     e |-> e + drop])))

\* the float nearest to (-1)^neg * (n / d) * 2^e, ties to even
FRoundValues(neg, n, d, e) ==
    IF n = <<>> THEN FZero
    ELSE With(MantissaBits + 2 + BBitLen(d) - BBitLen(n),
              LAMBDA gap :
                  With(IF gap > 0 THEN gap ELSE 0,
                       LAMBDA s :
                           With(With(BShl(n, s), LAMBDA ns : BDivMod(ns, d)),
                                LAMBDA dm : FRoundQuotient(neg, dm.q, dm.r = <<>>, e - s))))

FRound(neg, n, d, e) == With2(n, d, LAMBDA nn, dd : FRoundValues(neg, nn, dd, e))

\* float(n) of a natural number
FFromNat(n) == FRound(FALSE, n, <<1>>, 0)

\* a / b of two ints, b > 0: true division is correctly rounded
FIntDiv(a, b) == FRound(FALSE, BFromInt(a), BFromInt(b), 0)

\* x / y, y not 0
FDiv(x, y) ==
    With2(x, y, LAMBDA a, b : FRoundValues(a.neg # b.neg, a.m, b.m, a.e - b.e))

FSubValues(x, y) ==
    With(IF x.e < y.e THEN x.e ELSE y.e,
         LAMBDA emin :
             With2(BShl(x.m, x.e - emin), BShl(y.m, y.e - emin),
                   LAMBDA xs, ys :
                       IF x.neg # y.neg THEN FRound(x.neg, BAdd(xs, ys), <<1>>, emin)
                       ELSE IF BCmp(xs, ys) >= 0 THEN FRound(x.neg, BSub(xs, ys), <<1>>, emin)
                       ELSE FRound(~x.neg, BSub(ys, xs), <<1>>, emin)))

\* x - y
FSub(x, y) == With2(x, y, FSubValues)

\* x * k for an int 0 < k < 2^15
FMulInt(x, k) == With(x, LAMBDA a : FRound(a.neg, BMulSmall(a.m, k), <<1>>, a.e))

\* 0 <= x
FNonNegative(x) == With(x, LAMBDA a : ~a.neg \/ a.m = <<>>)

\* x > 0
FPositive(x) == With(x, LAMBDA a : ~a.neg /\ a.m # <<>>)

\* x <= k for an int k >= 0
FLeqInt(x, k) ==
    With(x, LAMBDA a :
        \/ a.neg
        \/ a.m = <<>>
        \/ IF a.e >= 0 THEN With(BShl(a.m, a.e), LAMBDA v : BCmp(v, BFromInt(k)) <= 0)
           ELSE With(BShl(BFromInt(k), 0 - a.e), LAMBDA v : BCmp(a.m, v) <= 0))

\* 10^16 n and the literal 1e18
TenTo16(n) == BMulSmall(BMulSmall(BMulSmall(BMulSmall(n, 10000), 10000), 10000), 10000)
E18 == BMulSmall(TenTo16(<<1>>), 100)

-----------------------------------------------------------------------------
(* Prices *)

\* lines 868-874: BUY maker/taker, SELL taker/maker, 0 when the divisor is 0
order_price(side, maker_amount, taker_amount) ==
    IF side = 0
    THEN IF taker_amount > 0 THEN FIntDiv(maker_amount, taker_amount) ELSE FZero
    ELSE IF maker_amount > 0 THEN FIntDiv(taker_amount, maker_amount) ELSE FZero

\* the price of the wire, 18 decimals: hundredths times 10^16
WirePrice(hundredths) == TenTo16(BFromInt(hundredths))

NoPrice == [none |-> TRUE, value |-> FZero]

\* get_best_price: float(top of the opposing side) / 1e18; None when the fetch
\* fails, the side is empty or its price is falsy
get_best_price(bk, side) ==
    LET top == IF side = 0 THEN bk.ask ELSE bk.bid
    IN  IF ~bk.ok \/ top = 0 THEN NoPrice
        ELSE IF top < 0
        THEN [none |-> FALSE,
              value |-> FDiv(FRound(TRUE, WirePrice(0 - top), <<1>>, 0), FFromNat(E18))]
        ELSE [none |-> FALSE, value |-> FDiv(FFromNat(WirePrice(top)), FFromNat(E18))]

\* lines 888-893: the distance in percent
distance_pct(side, current_price, price) ==
    IF side = 0
    THEN FMulInt(FDiv(FSub(current_price, price), price), 100)
    ELSE FMulInt(FDiv(FSub(price, current_price), price), 100)

\* should_alert = 0 <= distance_pct <= 10
should_alert(distance) == FNonNegative(distance) /\ FLeqInt(distance, BandPct)

\* lines 866-895 for one order and one orderbook
AlertDecision(side, maker_amount, taker_amount, bk) ==
    LET price == order_price(side, maker_amount, taker_amount)
        current_price == get_best_price(bk, side)
    IN  /\ FPositive(price)
        /\ ~current_price.none
        /\ FPositive(current_price.value)
        /\ should_alert(distance_pct(side, current_price.value, price))

\* lines 866-879 and 866-895 for the orders and the orderbooks of the venue
OrderPrices ==
    [o \in VenueOrderIds |->
        order_price(OrderData(o).side, OrderData(o).makerAmount, OrderData(o).takerAmount)]

AlertDecisions ==
    [o \in VenueOrderIds, bk \in VenueBooks |->
        AlertDecision(OrderData(o).side, OrderData(o).makerAmount, OrderData(o).takerAmount, bk)]

-----------------------------------------------------------------------------
(* Messages *)

Msg(to, kind, id, ok) == [to |-> to, kind |-> kind, id |-> id, ok |-> ok]

Commands == {"/start", "/help", "/register", "/status", "/orders", "/stop", "/unknown", "text"}

\* the inbound messages that are tried: chat, command token, argument text
Inbound ==
    {[chat |-> "c1", command |-> k, args |-> NoArgs] : k \in Commands}
    \cup {[chat |-> "c1", command |-> "/register", args |-> a] :
              a \in {AddrUpper, AddrPadded, AddrShort, AddrLong, AddrNonHex, AddrBadPrefix}}
    \cup {[chat |-> "c2", command |-> "/register", args |-> AddrLower],
          [chat |-> "c2", command |-> "/stop", args |-> NoArgs],
          [chat |-> "c2", command |-> "/status", args |-> NoArgs]}

InvalidLastFill == [valid |-> FALSE, ids |-> {}]
\* the threads of run(): the polling thread (line 1010) and the main thread
Threads == {"poll", "inbound"}
\* _save outside its with-block: no file object
NoFile == [state |-> "closed", text |-> EmptyMap]
\* before the first get_updates call
NoUpdates == [ok |-> FALSE, offset |-> 0, result |-> <<>>]

NoReply == Msg(NoChat, "none", NoId, FALSE)

\* an answer of get_market; at identifies the answer by the time it was given
Response(ok, now) == [success |-> ok, at |-> now]
\* a step that does not call get_market_cached
NoGet == [market_id |-> NoId, calls |-> <<>>, response |-> Response(FALSE, NoTime)]

-----------------------------------------------------------------------------
(* Initial states: UserDatabase._load of users.json, before run() *)

StoredUsers ==
    {[u |-> EmptyMap, o |-> <<>>],
     [u |-> ("c1" :> NewUser(AddrUpper)), o |-> <<"c1">>]}

PollIdle ==
    /\ pollPc = "sleep"
    /\ pollUsers = EmptyMap
    /\ pollQueue = <<>>
    /\ pollChat = NoChat
    /\ pollResp = <<>>
    /\ pollSeen = <<>>

\* both threads before their first step, nothing sent, nothing in the history
Idle ==
    /\ PollIdle
    /\ saving = [t \in Threads |-> NoFile]
    /\ market_cache = EmptyMap
    /\ market_cache_time = EmptyMap
    /\ marketGot = NoGet
    /\ last_update_id = 0
    /\ updates = NoUpdates
    /\ cmdPc = "wait"
    /\ cmdReply = NoReply
    /\ sent = <<>>
    /\ clock = 0
    /\ everSeenTx = {}
    /\ lastAlertAt = [k \in Chats \X VenueOrderIds |-> NoTime]
    /\ alertedAt = [k \in Chats \X VenueOrderIds |-> NoTime]
    /\ lastFill = [c \in Chats |-> InvalidLastFill]
    /\ pollRepeat = FALSE
    /\ pollFound = FALSE
    /\ sinceReg = [c \in Chats |-> {}]

Init ==
    /\ \E st \in StoredUsers : users = st.u /\ userOrder = st.o
    /\ disk = users
    /\ diskFlaky = FALSE
    /\ malformed = FALSE
    /\ marketFlaky = FALSE
    /\ phase = "init"
    /\ initQueue = ActiveChats(users, userOrder)
    /\ fills \in {<<>>, <<1>>}
    /\ openOrders \in {{}, {11}}
    /\ book = StartBook
    /\ Idle
    /\ startKnown =
           UNION {{<<c, "tx", t>> : t \in Range(MatchesFor(users[c].wallet_address))}
                  \cup {<<c, "order", o>> : o \in Range(OpenOrdersFor(users[c].wallet_address))}
                  : c \in Range(initQueue)}

-----------------------------------------------------------------------------
(* Startup: initialize_existing_users, then run() starts the two loops *)

\* history: the <<kind, id>> held by the seen lists of a registration
Held(user) ==
    {<<"tx", t>> : t \in Range(user.seen_tx_hashes)}
        \cup {<<"order", o>> : o \in Range(user.seen_order_hashes)}

\* history: every id held by a seen-fill list has been recorded as seen
Recorded(u) == UNION {{<<c, t>> : t \in Range(u[c].seen_tx_hashes)} : c \in DOMAIN u}

\* lines 964-978 for one user: the stores and files that the two fetches, with
\* and without success, and the add_seen_* calls can leave
InitResults(chat_id, okMatches, okOrders) ==
    LET wallet == users[chat_id].wallet_address
        afterTx == IF okMatches
                   THEN AddAllTx({[u |-> users, d |-> disk]}, chat_id, MatchesFor(wallet))
                   ELSE {[u |-> users, d |-> disk]}
    IN  IF okOrders
        THEN AddAllOrders(afterTx, chat_id, OpenOrdersFor(wallet))
        ELSE afterTx

\* lines 959-985 for one user: both fetches, every add_seen_* and its _save
InitUser ==
    /\ phase = "init"
    /\ initQueue # <<>>
    /\ \E okMatches \in BOOLEAN, okOrders \in BOOLEAN :
         \E st \in InitResults(Head(initQueue), okMatches, okOrders) :
           /\ users' = st.u
           /\ disk' = st.d
    /\ initQueue' = Tail(initQueue)
    /\ everSeenTx' = everSeenTx \cup Recorded(users')
    /\ sinceReg' = [c \in Chats |-> IF c \in DOMAIN users' THEN Held(users'[c]) ELSE sinceReg[c]]
    /\ sent' = <<>>
    /\ marketGot' = NoGet
    /\ UNCHANGED <<userOrder, phase, ioVars, cacheVars, venueVars, clock, pollVars, cmdVars,
                   startKnown, lastAlertAt, alertedAt, lastFill, pollRepeat, pollFound>>

\* lines 1007-1018: self.running = True, the polling thread and handle_updates start
StartLoops ==
    /\ phase = "init"
    /\ initQueue = <<>>
    /\ phase' = "run"
    /\ sent' = <<>>
    /\ marketGot' = NoGet
    /\ UNCHANGED <<storeVars, initQueue, ioVars, cacheVars, venueVars, clock, pollVars, cmdVars, histVars>>

-----------------------------------------------------------------------------
(* The market cache: get_market_cached *)

\* the default of max_age_seconds
MaxAgeSeconds == 60

\* the answers api.get_market may give at time now
MarketAnswers(now) == {Response(ok, now) : ok \in IF marketFlaky THEN BOOLEAN ELSE {TRUE}}

\* lines 746-748: an entry of the cache that is younger than max_age_seconds
CacheFresh(market_id, now) ==
    /\ market_id \in DOMAIN market_cache
    /\ now - (IF market_id \in DOMAIN market_cache_time THEN market_cache_time[market_id] ELSE 0)
           < MaxAgeSeconds

\* a get_market_cached that stores every answer
get_market_cached_storing(market_id, response) ==
    IF CacheFresh(market_id, clock)
    THEN /\ marketGot' = [market_id |-> market_id, calls |-> <<>>,
                          response |-> market_cache[market_id]]
         /\ UNCHANGED cacheVars
    ELSE /\ marketGot' = [market_id |-> market_id, calls |-> <<response>>,
                          response |-> response]
         /\ market_cache' = (market_id :> response) @@ market_cache
         /\ market_cache_time' = (market_id :> clock) @@ market_cache_time

\* a get_market_cached that fetches whenever it is called
get_market_cached_uncached(market_id, response) ==
    /\ marketGot' = [market_id |-> market_id, calls |-> <<response>>, response |-> response]
    /\ IF response.success
       THEN /\ market_cache' = (market_id :> response) @@ market_cache
            /\ market_cache_time' = (market_id :> clock) @@ market_cache_time
       ELSE UNCHANGED cacheVars

\* lines 742-757 at time clock, response being what api.get_market answers if
\* it is called
get_market_cached(market_id, response) ==
    IF CacheFresh(market_id, clock)
    THEN /\ marketGot' = [market_id |-> market_id, calls |-> <<>>,
                          response |-> market_cache[market_id]]
         /\ UNCHANGED cacheVars
    ELSE /\ marketGot' = [market_id |-> market_id, calls |-> <<response>>,
                          response |-> response]
         /\ IF response.success
            THEN /\ market_cache' = (market_id :> response) @@ market_cache
                 /\ market_cache_time' = (market_id :> clock) @@ market_cache_time
            ELSE UNCHANGED cacheVars

-----------------------------------------------------------------------------
(* The polling thread: poll_orders *)

\* line 912: users = self.db.get_all_active_users()
PollCycle ==
    /\ phase = "run"
    /\ pollPc = "sleep"
    /\ pollQueue' = ActiveChats(users, userOrder)
    /\ pollUsers' = [c \in Range(ActiveChats(users, userOrder)) |-> users[c].wallet_address]
    /\ pollPc' = "next"
    /\ sent' = <<>>
    /\ marketGot' = NoGet
    /\ UNCHANGED <<storeVars, phase, initQueue, ioVars, cacheVars, venueVars, clock, pollChat, pollResp,
                   pollSeen, cmdVars, histVars>>

\* a user loop that does not look at the running flag
PollNext_unflagged ==
    /\ pollPc = "next"
    /\ IF pollQueue = <<>>
       THEN /\ pollPc' = "sleep"
            /\ pollUsers' = EmptyMap
            /\ pollChat' = NoChat
            /\ UNCHANGED pollQueue
       ELSE /\ pollPc' = "fill_fetch"
            /\ pollChat' = Head(pollQueue)
            /\ pollQueue' = Tail(pollQueue)
            /\ UNCHANGED pollUsers
    /\ sent' = <<>>
    /\ marketGot' = NoGet
    /\ UNCHANGED <<storeVars, phase, initQueue, ioVars, cacheVars, venueVars, clock, pollResp, pollSeen,
                   cmdVars, histVars>>

\* lines 914-937: the next user of the snapshot, or, at its end or with the
\* running flag cleared (line 915), the wait before the next cycle
PollNext ==
    /\ pollPc = "next"
    /\ IF pollQueue = <<>> \/ phase # "run"
       THEN /\ pollPc' = "sleep"
            /\ pollUsers' = EmptyMap
            /\ pollChat' = NoChat
            /\ UNCHANGED pollQueue
       ELSE /\ pollPc' = "fill_fetch"
            /\ pollChat' = Head(pollQueue)
            /\ pollQueue' = Tail(pollQueue)
            /\ UNCHANGED pollUsers
    /\ sent' = <<>>
    /\ marketGot' = NoGet
    /\ UNCHANGED <<storeVars, phase, initQueue, ioVars, cacheVars, venueVars, clock, pollResp, pollSeen,
                   cmdVars, histVars>>

\* lines 910 and 934-937: with the running flag cleared the wait ends at its
\* next one-second step and poll_orders returns
PollExit ==
    /\ pollPc = "sleep"
    /\ phase = "stopping"
    /\ pollPc' = "done"
    /\ sent' = <<>>
    /\ marketGot' = NoGet
    /\ UNCHANGED <<storeVars, phase, initQueue, ioVars, cacheVars, venueVars, clock, pollUsers, pollQueue,
                   pollChat, pollResp, pollSeen, cmdVars, histVars>>

(* check_orders_for_user *)

\* a fill check whose fetch ends the polling cycle whenever it fails
FillFetch_aborting ==
    /\ pollPc = "fill_fetch"
    /\ pollPc' = "sleep"
    /\ pollResp' = <<>>
    /\ pollRepeat' = FALSE
    /\ lastFill' = [lastFill EXCEPT ![pollChat] = InvalidLastFill]
    /\ sent' = <<>>
    /\ marketGot' = NoGet
    /\ UNCHANGED <<storeVars, phase, initQueue, ioVars, cacheVars, venueVars, clock, pollUsers, pollQueue,
                   pollChat, pollSeen, cmdVars, everSeenTx, startKnown, sinceReg, lastAlertAt,
                   alertedAt, pollFound>>

\* lines 786-794: get_order_matches for the wallet of the snapshot
FillFetch ==
    /\ pollPc = "fill_fetch"
    /\ \E ok \in BOOLEAN :
         IF ok /\ pollUsers[pollChat] # <<>>
         THEN LET data == MatchesFor(pollUsers[pollChat])
              IN  /\ pollResp' = data
                  /\ pollPc' = "fill_loop"
                  /\ pollRepeat' = /\ pollChat \in DOMAIN users
                                   /\ lastFill[pollChat].valid
                                   /\ lastFill[pollChat].ids = Range(data)
                  /\ lastFill' = [lastFill EXCEPT ![pollChat] =
                                     [valid |-> pollChat \in DOMAIN users, ids |-> Range(data)]]
         ELSE /\ pollResp' = <<>>
              /\ pollPc' = "order_fetch"
              /\ pollRepeat' = FALSE
              /\ lastFill' = [lastFill EXCEPT ![pollChat] = InvalidLastFill]
    /\ sent' = <<>>
    /\ marketGot' = NoGet
    /\ UNCHANGED <<storeVars, phase, initQueue, ioVars, cacheVars, venueVars, clock, pollUsers, pollQueue,
                   pollChat, pollSeen, cmdVars, everSeenTx, startKnown, sinceReg, lastAlertAt, alertedAt, pollFound>>

\* lines 796-798: the next match, tx_hash and not has_seen_tx(chat_id, tx_hash)
FillLoop ==
    /\ pollPc = "fill_loop"
    /\ IF pollResp = <<>>
       THEN /\ pollPc' = "order_fetch"
            /\ pollRepeat' = FALSE
            /\ pollFound' = FALSE
            /\ UNCHANGED pollResp
       ELSE /\ pollFound' = /\ pollChat \in DOMAIN users
                              /\ Head(pollResp) \in Range(users[pollChat].seen_tx_hashes)
            /\ IF has_seen_tx(users, pollChat, Head(pollResp))
               THEN /\ pollResp' = Tail(pollResp)
                    /\ UNCHANGED <<pollPc, pollRepeat>>
               ELSE /\ pollPc' = "fill_add"
                    /\ UNCHANGED <<pollResp, pollRepeat>>
    /\ sent' = <<>>
    /\ marketGot' = NoGet
    /\ UNCHANGED <<storeVars, phase, initQueue, ioVars, cacheVars, venueVars, clock, pollUsers, pollQueue,
                   pollChat, pollSeen, cmdVars, everSeenTx, startKnown, sinceReg, lastAlertAt, alertedAt, lastFill>>

\* lines 153-156 of add_seen_tx: the list is fetched and grows in place
FillAdd ==
    /\ pollPc = "fill_add"
    /\ LET tx_hash == Head(pollResp)
       IN  IF pollChat \in DOMAIN users /\ tx_hash \notin Range(users[pollChat].seen_tx_hashes)
           THEN /\ users' = [users EXCEPT ![pollChat].seen_tx_hashes = SeenAppend(@, tx_hash)]
                /\ pollSeen' = SeenAppend(users[pollChat].seen_tx_hashes, tx_hash)
                /\ sinceReg' = [sinceReg EXCEPT ![pollChat] = @ \cup {<<"tx", tx_hash>>}]
                /\ pollPc' = "fill_store"
           ELSE /\ pollPc' = "fill_send"
                /\ UNCHANGED <<users, pollSeen, sinceReg>>
    /\ sent' = <<>>
    /\ marketGot' = NoGet
    /\ UNCHANGED <<userOrder, disk, phase, initQueue, ioVars, cacheVars, venueVars, clock, pollUsers, pollQueue,
                   pollChat, pollResp, cmdVars, everSeenTx, startKnown, lastAlertAt, alertedAt, lastFill,
                   pollRepeat, pollFound>>

\* lines 158-159 of add_seen_tx: the truncated copy is stored and saved; a chat
\* deleted meanwhile raises KeyError, which line 805 catches
FillStore ==
    /\ pollPc = "fill_store"
    /\ IF pollChat \in DOMAIN users
       THEN /\ users' = [users EXCEPT ![pollChat].seen_tx_hashes = SeenTruncate(pollSeen)]
            /\ disk' \in SaveResults(users', disk)
            /\ pollPc' = "fill_send"
            /\ UNCHANGED <<pollResp, lastFill, pollRepeat>>
       ELSE /\ pollPc' = "order_fetch"
            /\ pollResp' = <<>>
            /\ lastFill' = [lastFill EXCEPT ![pollChat] = InvalidLastFill]
            /\ pollRepeat' = FALSE
            /\ UNCHANGED <<users, disk>>
    /\ pollSeen' = <<>>
    /\ sent' = <<>>
    /\ marketGot' = NoGet
    /\ UNCHANGED <<userOrder, phase, initQueue, ioVars, cacheVars, venueVars, clock, pollUsers, pollQueue,
                   pollChat, cmdVars, everSeenTx, startKnown, sinceReg, lastAlertAt, alertedAt, pollFound>>

\* lines 801-803: send_order_fill_notification
\* a fill notification whose failed send takes the id out of the seen list again
FillSend_retrying ==
    /\ pollPc = "fill_send"
    /\ \E ok \in BOOLEAN :
         /\ sent' = <<Msg(pollChat, IF malformed THEN "fallback" ELSE "filled", Head(pollResp), ok)>>
         /\ users' = IF ok \/ pollChat \notin DOMAIN users
                     THEN users
                     ELSE [users EXCEPT ![pollChat].seen_tx_hashes =
                               SelectSeq(@, LAMBDA h : h # Head(pollResp))]
    /\ marketGot' = NoGet
    /\ pollResp' = Tail(pollResp)
    /\ pollPc' = "fill_loop"
    /\ everSeenTx' = IF /\ pollChat \in DOMAIN users
                        /\ Head(pollResp) \in Range(users[pollChat].seen_tx_hashes)
                     THEN everSeenTx \cup {<<pollChat, Head(pollResp)>>}
                     ELSE everSeenTx
    /\ UNCHANGED <<userOrder, disk, phase, initQueue, ioVars, cacheVars, venueVars, clock, pollUsers, pollQueue,
                   pollChat, pollSeen, cmdVars, startKnown, sinceReg, lastAlertAt, alertedAt, lastFill, pollRepeat, pollFound>>

FillSend ==
    /\ pollPc = "fill_send"
    /\ \E ok \in BOOLEAN :
         sent' = <<Msg(pollChat, IF malformed THEN "fallback" ELSE "filled", Head(pollResp), ok)>>
    /\ marketGot' = NoGet
    /\ pollResp' = Tail(pollResp)
    /\ pollPc' = "fill_loop"
    /\ everSeenTx' = IF /\ pollChat \in DOMAIN users
                        /\ Head(pollResp) \in Range(users[pollChat].seen_tx_hashes)
                     THEN everSeenTx \cup {<<pollChat, Head(pollResp)>>}
                     ELSE everSeenTx
    /\ UNCHANGED <<storeVars, phase, initQueue, ioVars, cacheVars, venueVars, clock, pollUsers, pollQueue,
                   pollChat, pollSeen, cmdVars, startKnown, sinceReg, lastAlertAt, alertedAt, lastFill, pollRepeat, pollFound>>

(* check_new_orders_for_user *)

\* a new-order check that gives up the rest of the user's checks when its fetch fails
OrderFetch_skipping ==
    /\ pollPc = "order_fetch"
    /\ \E ok \in BOOLEAN :
         IF ok /\ pollUsers[pollChat] # <<>>
         THEN /\ pollResp' = OpenOrdersFor(pollUsers[pollChat])
              /\ pollPc' = "order_loop"
         ELSE /\ pollResp' = <<>>
              /\ pollPc' = "next"
    /\ sent' = <<>>
    /\ marketGot' = NoGet
    /\ UNCHANGED <<storeVars, phase, initQueue, ioVars, cacheVars, venueVars, clock, pollUsers, pollQueue,
                   pollChat, pollSeen, cmdVars, histVars>>

\* lines 810-818: get_open_orders for the wallet of the snapshot
OrderFetch ==
    /\ pollPc = "order_fetch"
    /\ \E ok \in BOOLEAN :
         IF ok /\ pollUsers[pollChat] # <<>>
         THEN /\ pollResp' = OpenOrdersFor(pollUsers[pollChat])
              /\ pollPc' = "order_loop"
         ELSE /\ pollResp' = <<>>
              /\ pollPc' = "alert_fetch"
    /\ sent' = <<>>
    /\ marketGot' = NoGet
    /\ UNCHANGED <<storeVars, phase, initQueue, ioVars, cacheVars, venueVars, clock, pollUsers, pollQueue,
                   pollChat, pollSeen, cmdVars, histVars>>

\* lines 820-824: the next order, order_hash and not has_seen_order(chat_id, order_hash)
OrderLoop ==
    /\ pollPc = "order_loop"
    /\ IF pollResp = <<>>
       THEN /\ pollPc' = "alert_fetch"
            /\ UNCHANGED pollResp
       ELSE IF \/ OrderData(Head(pollResp)).hash = NoId
               \/ has_seen_order(users, pollChat, OrderData(Head(pollResp)).hash)
       THEN /\ pollResp' = Tail(pollResp)
            /\ UNCHANGED pollPc
       ELSE /\ pollPc' = "order_add"
            /\ UNCHANGED pollResp
    /\ sent' = <<>>
    /\ marketGot' = NoGet
    /\ UNCHANGED <<storeVars, phase, initQueue, ioVars, cacheVars, venueVars, clock, pollUsers, pollQueue,
                   pollChat, pollSeen, cmdVars, histVars>>

\* lines 169-172 of add_seen_order
OrderAdd ==
    /\ pollPc = "order_add"
    /\ LET order_hash == OrderData(Head(pollResp)).hash
       IN  IF /\ pollChat \in DOMAIN users
              /\ order_hash \notin Range(users[pollChat].seen_order_hashes)
           THEN /\ users' = [users EXCEPT ![pollChat].seen_order_hashes = SeenAppend(@, order_hash)]
                /\ pollSeen' = SeenAppend(users[pollChat].seen_order_hashes, order_hash)
                /\ sinceReg' = [sinceReg EXCEPT ![pollChat] = @ \cup {<<"order", order_hash>>}]
                /\ pollPc' = "order_store"
           ELSE /\ pollPc' = "order_send"
                /\ UNCHANGED <<users, pollSeen, sinceReg>>
    /\ sent' = <<>>
    /\ marketGot' = NoGet
    /\ UNCHANGED <<userOrder, disk, phase, initQueue, ioVars, cacheVars, venueVars, clock, pollUsers, pollQueue,
                   pollChat, pollResp, cmdVars, everSeenTx, startKnown, lastAlertAt, alertedAt, lastFill,
                   pollRepeat, pollFound>>

\* lines 173-174 of add_seen_order; KeyError is caught at line 836
OrderStore ==
    /\ pollPc = "order_store"
    /\ IF pollChat \in DOMAIN users
       THEN /\ users' = [users EXCEPT ![pollChat].seen_order_hashes = SeenTruncate(pollSeen)]
            /\ disk' \in SaveResults(users', disk)
            /\ pollPc' = "order_send"
            /\ UNCHANGED pollResp
       ELSE /\ pollPc' = "alert_fetch"
            /\ pollResp' = <<>>
            /\ UNCHANGED <<users, disk>>
    /\ pollSeen' = <<>>
    /\ sent' = <<>>
    /\ marketGot' = NoGet
    /\ UNCHANGED <<userOrder, phase, initQueue, ioVars, cacheVars, venueVars, clock, pollUsers, pollQueue,
                   pollChat, cmdVars, histVars>>

\* lines 829-834: get_market_cached and send_order_placed_notification
OrderSend ==
    /\ pollPc = "order_send"
    /\ IF OrderData(Head(pollResp)).marketId # NoId
       THEN \E response \in MarketAnswers(clock) :
                get_market_cached(OrderData(Head(pollResp)).marketId, response)
       ELSE marketGot' = NoGet /\ UNCHANGED cacheVars
    /\ IF malformed
       THEN sent' = <<>>
       ELSE \E ok \in BOOLEAN : sent' = <<Msg(pollChat, "placed", Head(pollResp), ok)>>
    /\ pollResp' = Tail(pollResp)
    /\ pollPc' = "order_loop"
    /\ UNCHANGED <<storeVars, phase, initQueue, ioVars, venueVars, clock, pollUsers, pollQueue,
                   pollChat, pollSeen, cmdVars, histVars>>

(* check_price_alerts_for_user *)

\* lines 841-849: get_open_orders for the wallet of the snapshot
AlertFetch ==
    /\ pollPc = "alert_fetch"
    /\ \E ok \in BOOLEAN :
         IF ok /\ pollUsers[pollChat] # <<>>
         THEN /\ pollResp' = OpenOrdersFor(pollUsers[pollChat])
              /\ pollPc' = "alert_loop"
         ELSE /\ pollResp' = <<>>
              /\ pollPc' = "next"
    /\ sent' = <<>>
    /\ marketGot' = NoGet
    /\ UNCHANGED <<storeVars, phase, initQueue, ioVars, cacheVars, venueVars, clock, pollUsers, pollQueue,
                   pollChat, pollSeen, cmdVars, histVars>>

\* a price-alert check that looks at orders of every strategy
AlertLoop_anystrategy ==
    /\ pollPc = "alert_loop"
    /\ IF pollResp = <<>>
       THEN /\ pollPc' = "next"
            /\ pollFound' = FALSE
            /\ UNCHANGED pollResp
       ELSE LET order == OrderData(Head(pollResp))
                price == OrderPrices[Head(pollResp)]
            IN  /\ pollFound' =
                      /\ pollChat \in DOMAIN users
                      /\ order.hash \in DOMAIN users[pollChat].price_alerts_sent
                      /\ clock - users[pollChat].price_alerts_sent[order.hash] <= CooldownSeconds
                /\ IF /\ order.marketId # NoId
                      /\ order.hash # NoId
                      /\ can_send_price_alert(users, pollChat, order.hash, clock)
                      /\ FPositive(price)
                   THEN /\ pollPc' = "alert_price"
                        /\ UNCHANGED pollResp
                   ELSE /\ pollResp' = Tail(pollResp)
                        /\ UNCHANGED pollPc
    /\ sent' = <<>>
    /\ marketGot' = NoGet
    /\ UNCHANGED <<storeVars, phase, initQueue, ioVars, cacheVars, venueVars, clock, pollUsers, pollQueue,
                   pollChat, pollSeen, cmdVars, everSeenTx, startKnown, sinceReg, lastAlertAt,
                   alertedAt, lastFill, pollRepeat>>

\* lines 851-879: LIMIT orders with a market and a hash, not under cooldown, priced above 0
AlertLoop ==
    /\ pollPc = "alert_loop"
    /\ IF pollResp = <<>>
       THEN /\ pollPc' = "next"
            /\ pollFound' = FALSE
            /\ UNCHANGED pollResp
       ELSE LET order == OrderData(Head(pollResp))
                price == OrderPrices[Head(pollResp)]
            IN  /\ pollFound' =
                      /\ pollChat \in DOMAIN users
                      /\ order.hash \in DOMAIN users[pollChat].price_alerts_sent
                      /\ clock - users[pollChat].price_alerts_sent[order.hash] <= CooldownSeconds
                /\ IF /\ order.strategy = "LIMIT"
                      /\ order.marketId # NoId
                      /\ order.hash # NoId
                      /\ can_send_price_alert(users, pollChat, order.hash, clock)
                      /\ FPositive(price)
                   THEN /\ pollPc' = "alert_price"
                        /\ UNCHANGED pollResp
                   ELSE /\ pollResp' = Tail(pollResp)
                        /\ UNCHANGED pollPc
    /\ sent' = <<>>
    /\ marketGot' = NoGet
    /\ UNCHANGED <<storeVars, phase, initQueue, ioVars, cacheVars, venueVars, clock, pollUsers, pollQueue,
                   pollChat, pollSeen, cmdVars, everSeenTx, startKnown, sinceReg, lastAlertAt,
                   alertedAt, lastFill, pollRepeat>>

\* lines 881-895: get_best_price and the band test
AlertPrice ==
    /\ pollPc = "alert_price"
    /\ IF AlertDecisions[Head(pollResp), book]
       THEN /\ pollPc' = "alert_send"
            /\ UNCHANGED pollResp
       ELSE /\ pollPc' = "alert_loop"
            /\ pollResp' = Tail(pollResp)
    /\ sent' = <<>>
    /\ marketGot' = NoGet
    /\ UNCHANGED <<storeVars, phase, initQueue, ioVars, cacheVars, venueVars, clock, pollUsers, pollQueue,
                   pollChat, pollSeen, cmdVars, histVars>>

\* lines 896-900: get_market_cached and send_price_alert_notification
AlertSend ==
    /\ pollPc = "alert_send"
    /\ \E response \in MarketAnswers(clock) :
         get_market_cached(OrderData(Head(pollResp)).marketId, response)
    /\ IF malformed
       THEN sent' = <<>> /\ UNCHANGED <<lastAlertAt, alertedAt>>
       ELSE /\ \E ok \in BOOLEAN : sent' = <<Msg(pollChat, "price_alert", Head(pollResp), ok)>>
            /\ lastAlertAt' = [lastAlertAt EXCEPT ![<<pollChat, Head(pollResp)>>] = clock]
            /\ alertedAt' = [alertedAt EXCEPT ![<<pollChat, Head(pollResp)>>] = clock]
    /\ pollPc' = "alert_record"
    /\ UNCHANGED <<storeVars, phase, initQueue, ioVars, venueVars, clock, pollUsers, pollQueue,
                   pollChat, pollResp, pollSeen, cmdVars, everSeenTx, startKnown, sinceReg,
                   lastFill, pollRepeat, pollFound>>

\* lines 901-903: record_price_alert and its _save
AlertRecord ==
    /\ pollPc = "alert_record"
    /\ users' = record_price_alert(users, pollChat, OrderData(Head(pollResp)).hash, clock)
    /\ IF pollChat \in DOMAIN users
       THEN disk' \in SaveResults(users', disk)
       ELSE UNCHANGED disk
    /\ pollResp' = Tail(pollResp)
    /\ pollPc' = "alert_loop"
    /\ sent' = <<>>
    /\ marketGot' = NoGet
    /\ UNCHANGED <<userOrder, phase, initQueue, ioVars, cacheVars, venueVars, clock, pollUsers, pollQueue,
                   pollChat, pollSeen, cmdVars, histVars>>

Poll ==
    \/ PollCycle \/ PollNext
    \/ FillFetch \/ FillLoop \/ FillAdd \/ FillStore \/ FillSend
    \/ OrderFetch \/ OrderLoop \/ OrderAdd \/ OrderStore \/ OrderSend
    \/ AlertFetch \/ AlertLoop \/ AlertPrice \/ AlertSend \/ AlertRecord

-----------------------------------------------------------------------------
(* The inbound thread: handle_updates and process_command *)

\* data["result"] of a getUpdates answer, as update ids: what the API may
\* send, in order or not, above the requested offset or not
Batches ==
    {<<>>} \cup {<<a>> : a \in 1..MaxUpdateId}
           \cup {<<a, b>> : a \in 1..MaxUpdateId, b \in 1..MaxUpdateId}

\* a get_updates that takes the id of the first update of the batch
get_updates_first ==
    /\ phase = "run"
    /\ cmdPc = "wait"
    /\ \E ok \in BOOLEAN, result \in Batches :
         /\ updates' = [ok |-> ok, offset |-> last_update_id + 1,
                        result |-> IF ok THEN result ELSE <<>>]
         /\ last_update_id' = IF ok /\ result # <<>> THEN result[1] ELSE last_update_id
    /\ sent' = <<>>
    /\ marketGot' = NoGet
    /\ UNCHANGED <<storeVars, phase, initQueue, saving, cacheVars, venueVars, clock, pollVars, cmdVars,
                   histVars>>

\* TelegramBot.get_updates, lines 243-264, called at line 943: the request
\* fails (line 262) or is answered with the updates of data["result"]
get_updates ==
    /\ phase = "run"
    /\ cmdPc = "wait"
    /\ \E ok \in BOOLEAN, result \in Batches :
         /\ updates' = [ok |-> ok, offset |-> last_update_id + 1,
                        result |-> IF ok THEN result ELSE <<>>]
         /\ last_update_id' = IF ok /\ result # <<>> THEN result[Len(result)]
                                                     ELSE last_update_id
    /\ sent' = <<>>
    /\ marketGot' = NoGet
    /\ UNCHANGED <<storeVars, phase, initQueue, saving, cacheVars, venueVars, clock, pollVars, cmdVars,
                   histVars>>

\* history: a command that rewrites the registration of chat_id ends what the
\* fill checks of that chat have in common
Touched(chat_id) ==
    /\ lastFill' = [lastFill EXCEPT ![chat_id] = InvalidLastFill]
    /\ pollRepeat' = IF pollChat = chat_id THEN FALSE ELSE pollRepeat

\* handle_updates hands the next message to process_command
Receiving ==
    /\ phase = "run"
    /\ cmdPc = "wait"

\* a handler that only replies
Replies(msgs) ==
    /\ Receiving
    /\ sent' = msgs
    /\ marketGot' = NoGet
    /\ UNCHANGED <<storeVars, phase, initQueue, ioVars, cacheVars, venueVars, clock, pollVars, cmdVars, histVars>>

\* handle_start, handle_help
handle_start(m) ==
    /\ m.command \in {"/start", "/help"}
    /\ \E ok \in BOOLEAN : Replies(<<Msg(m.chat, "welcome", NoId, ok)>>)

\* handle_register, lines 525-546: no argument, or an argument that is no address
handle_register_rejected(m) ==
    /\ m.command = "/register"
    /\ \/ /\ m.args = <<>>
          /\ \E ok \in BOOLEAN : Replies(<<Msg(m.chat, "usage", NoId, ok)>>)
       \/ /\ m.args # <<>>
          /\ ~is_valid_eth_address(Strip(m.args))
          /\ \E ok \in BOOLEAN : Replies(<<Msg(m.chat, "invalid_address", NoId, ok)>>)

\* handle_register, line 549: register_user and its _save
handle_register(m) ==
    /\ Receiving
    /\ m.command = "/register"
    /\ m.args # <<>>
    /\ is_valid_eth_address(Strip(m.args))
    /\ users' = register_user(users, m.chat, Strip(m.args))
    /\ userOrder' = KeyAssigned(userOrder, m.chat)
    /\ disk' \in SaveResults(users', disk)
    /\ cmdPc' = "reply"
    /\ cmdReply' = Msg(m.chat, "registered", NoId, TRUE)
    /\ Touched(m.chat)
    /\ sinceReg' = [sinceReg EXCEPT ![m.chat] = {}]
    /\ alertedAt' = [k \in Chats \X VenueOrderIds |-> IF k[1] = m.chat THEN NoTime ELSE alertedAt[k]]
    /\ sent' = <<>>
    /\ marketGot' = NoGet
    /\ UNCHANGED <<phase, initQueue, ioVars, cacheVars, venueVars, clock, pollVars, everSeenTx, startKnown,
                   lastAlertAt, pollFound>>

\* handle_status
handle_status(m) ==
    /\ m.command = "/status"
    /\ \E ok \in BOOLEAN :
         IF m.chat \notin DOMAIN users
         THEN Replies(<<Msg(m.chat, "not_registered", NoId, ok)>>)
         ELSE Replies(<<Msg(m.chat, "status", Len(users[m.chat].seen_tx_hashes), ok)>>)

\* handle_stop, lines 588-592: nothing to delete
handle_stop_unregistered(m) ==
    /\ m.command = "/stop"
    /\ m.chat \notin DOMAIN users
    /\ \E ok \in BOOLEAN : Replies(<<Msg(m.chat, "not_registered", NoId, ok)>>)

\* a /stop whose deletion is undone when the file cannot be written
handle_stop_reverting(m) ==
    /\ Receiving
    /\ m.command = "/stop"
    /\ m.chat \in DOMAIN users
    /\ \/ /\ users' = unregister_user(users, m.chat)
          /\ userOrder' = KeyDeleted(userOrder, m.chat)
          /\ disk' = users'
       \/ diskFlaky /\ UNCHANGED <<users, userOrder, disk>>
    /\ cmdPc' = "reply"
    /\ cmdReply' = Msg(m.chat, "unregistered", NoId, TRUE)
    /\ Touched(m.chat)
    /\ sent' = <<>>
    /\ marketGot' = NoGet
    /\ UNCHANGED <<phase, initQueue, ioVars, cacheVars, venueVars, clock, pollVars, everSeenTx, startKnown, sinceReg,
                   lastAlertAt, alertedAt, pollFound>>

\* handle_stop, line 594: unregister_user and its _save
handle_stop(m) ==
    /\ Receiving
    /\ m.command = "/stop"
    /\ m.chat \in DOMAIN users
    /\ users' = unregister_user(users, m.chat)
    /\ userOrder' = KeyDeleted(userOrder, m.chat)
    /\ disk' \in SaveResults(users', disk)
    /\ cmdPc' = "reply"
    /\ cmdReply' = Msg(m.chat, "unregistered", NoId, TRUE)
    /\ Touched(m.chat)
    /\ sent' = <<>>
    /\ marketGot' = NoGet
    /\ UNCHANGED <<phase, initQueue, ioVars, cacheVars, venueVars, clock, pollVars, everSeenTx, startKnown, sinceReg,
                   lastAlertAt, alertedAt, pollFound>>

\* handle_orders: the open orders of the registered wallet, at most 20 rendered
handle_orders(m) ==
    /\ m.command = "/orders"
    /\ \E ok \in BOOLEAN, fetched \in BOOLEAN :
         IF m.chat \notin DOMAIN users
         THEN Replies(<<Msg(m.chat, "not_registered", NoId, ok)>>)
         ELSE LET orders == OpenOrdersFor(users[m.chat].wallet_address)
                  fetching == Msg(m.chat, "fetching", NoId, ok)
              IN  IF ~fetched
                  THEN Replies(<<fetching, Msg(m.chat, "orders_error", NoId, ok)>>)
                  ELSE IF orders = <<>>
                  THEN Replies(<<fetching, Msg(m.chat, "no_orders", NoId, ok)>>)
                  ELSE Replies(<<fetching, Msg(m.chat, "orders", Len(orders), ok)>>)

\* process_command, lines 700-701 and 722-723
handle_other(m) ==
    \/ /\ m.command = "text"
       /\ Replies(<<>>)
    \/ /\ m.command = "/unknown"
       /\ \E ok \in BOOLEAN : Replies(<<Msg(m.chat, "unknown_command", NoId, ok)>>)

\* process_command, lines 710-723: the dispatch on the command
process_command(m) ==
    \/ handle_start(m)
    \/ handle_register_rejected(m)
    \/ handle_register(m)
    \/ handle_status(m)
    \/ handle_orders(m)
    \/ handle_stop_unregistered(m)
    \/ handle_stop(m)
    \/ handle_other(m)

\* the bot.send_message that ends handle_register and handle_stop
CmdReply ==
    /\ cmdPc = "reply"
    /\ \E ok \in BOOLEAN : sent' = <<[cmdReply EXCEPT !.ok = ok]>>
    /\ marketGot' = NoGet
    /\ cmdPc' = "wait"
    /\ cmdReply' = NoReply
    /\ UNCHANGED <<storeVars, phase, initQueue, ioVars, cacheVars, venueVars, clock, pollVars, histVars>>

-----------------------------------------------------------------------------
(* _save step by step, as the two threads run it on the one file: open(...,
   'w') empties the file (line 113), json.dump fills the buffer of the file
   object from self.users (line 114), and leaving the with-block writes the
   buffer at the start of the file. A document is shorter than the buffer of
   a file object, so that it reaches the file in one write. *)

\* a file without bytes, which json.load rejects
Truncated == [c \in {"(no bytes)"} |-> <<>>]
\* a document followed by the rest of a longer one, which json.load rejects
Garbled == [c \in {"(extra data)"} |-> <<>>]

\* the length of the text of a document, in lines of json.dump(..., indent=2)
RECURSIVE DocLen(_)
DocLen(d) ==
    IF DOMAIN d = {}
    THEN 1
    ELSE LET c == CHOOSE k \in DOMAIN d : TRUE
         IN  9 + Len(d[c].seen_tx_hashes) + Len(d[c].seen_order_hashes)
               + Cardinality(DOMAIN d[c].price_alerts_sent)
               + DocLen(unregister_user(d, c))

\* the file after text was written at its start
Overlay(text, file) ==
    IF file = Truncated
    THEN text
    ELSE IF file = Garbled \/ DocLen(text) < DocLen(file) THEN Garbled ELSE text

\* lines 158-159 of add_seen_tx: the truncated copy is stored and _save opens
\* the file; a chat deleted meanwhile raises KeyError, which line 805 catches
FillStoreOpen ==
    /\ pollPc = "fill_store"
    /\ IF pollChat \in DOMAIN users
       THEN /\ users' = [users EXCEPT ![pollChat].seen_tx_hashes = SeenTruncate(pollSeen)]
            /\ disk' = Truncated
            /\ saving' = [saving EXCEPT !["poll"] = [state |-> "open", text |-> EmptyMap]]
            /\ pollPc' = "fill_saving"
            /\ UNCHANGED <<pollResp, lastFill, pollRepeat>>
       ELSE /\ pollPc' = "order_fetch"
            /\ pollResp' = <<>>
            /\ lastFill' = [lastFill EXCEPT ![pollChat] = InvalidLastFill]
            /\ pollRepeat' = FALSE
            /\ UNCHANGED <<users, disk, saving>>
    /\ pollSeen' = <<>>
    /\ sent' = <<>>
    /\ marketGot' = NoGet
    /\ UNCHANGED <<userOrder, phase, initQueue, last_update_id, updates, cacheVars, venueVars, clock,
                   pollUsers, pollQueue, pollChat, cmdVars, everSeenTx, startKnown, sinceReg,
                   lastAlertAt, alertedAt, pollFound>>

\* handle_stop, line 594: unregister_user deletes the record (line 136) and
\* _save opens the file
handle_stop_open(m) ==
    /\ Receiving
    /\ m.command = "/stop"
    /\ m.chat \in DOMAIN users
    /\ users' = unregister_user(users, m.chat)
    /\ userOrder' = KeyDeleted(userOrder, m.chat)
    /\ disk' = Truncated
    /\ saving' = [saving EXCEPT !["inbound"] = [state |-> "open", text |-> EmptyMap]]
    /\ cmdPc' = "saving"
    /\ cmdReply' = Msg(m.chat, "unregistered", NoId, TRUE)
    /\ Touched(m.chat)
    /\ sent' = <<>>
    /\ marketGot' = NoGet
    /\ UNCHANGED <<phase, initQueue, last_update_id, updates, cacheVars, venueVars, clock, pollVars,
                   everSeenTx, startKnown, sinceReg, lastAlertAt, alertedAt, pollFound>>

\* line 114: json.dump(self.users, f)
SaveDump(t) ==
    /\ saving[t].state = "open"
    /\ saving' = [saving EXCEPT ![t] = [state |-> "dumped", text |-> users]]
    /\ sent' = <<>>
    /\ marketGot' = NoGet
    /\ UNCHANGED <<storeVars, phase, initQueue, last_update_id, updates, cacheVars, venueVars, clock,
                   pollVars, cmdVars, histVars>>

\* line 113, the end of the with-block: the buffer is written to the file and
\* the thread goes on after its _save
SaveClose(t) ==
    /\ saving[t].state = "dumped"
    /\ disk' = Overlay(saving[t].text, disk)
    /\ saving' = [saving EXCEPT ![t] = NoFile]
    /\ IF t = "poll"
       THEN pollPc' = "fill_send" /\ UNCHANGED cmdPc
       ELSE cmdPc' = "reply" /\ UNCHANGED pollPc
    /\ sent' = <<>>
    /\ marketGot' = NoGet
    /\ UNCHANGED <<users, userOrder, phase, initQueue, last_update_id, updates, cacheVars, venueVars,
                   clock, pollUsers, pollQueue, pollChat, pollResp, pollSeen, cmdReply,
                   histVars>>

-----------------------------------------------------------------------------
(* Shutdown: run(), lines 1017-1024 *)

\* KeyboardInterrupt in the main thread while handle_updates runs: the handler
\* in progress is abandoned, the except clause logs (lines 1019-1020) and the
\* finally clause clears the running flag (line 1022)
Interrupt ==
    /\ phase = "run"
    /\ phase' = "stopping"
    /\ cmdPc' = "done"
    /\ cmdReply' = NoReply
    /\ sent' = <<>>
    /\ marketGot' = NoGet
    /\ UNCHANGED <<storeVars, initQueue, ioVars, cacheVars, venueVars, clock, pollVars, histVars>>

\* lines 1023-1024: poll_thread.join(timeout=5) returns, when the polling
\* thread has ended or after five seconds, "Bot stopped" is logged and run()
\* returns; the process ends and takes the daemon thread with it (line 1010)
Stopped ==
    /\ phase = "stopping"
    /\ phase' = "stopped"
    /\ pollPc' = IF pollPc = "done" THEN "done" ELSE "killed"
    /\ sent' = <<>>
    /\ marketGot' = NoGet
    /\ UNCHANGED <<storeVars, initQueue, ioVars, cacheVars, venueVars, clock, pollUsers, pollQueue,
                   pollChat, pollResp, pollSeen, cmdVars, histVars>>

-----------------------------------------------------------------------------
(* The environment: the venue and the clock *)

\* a new match of the first wallet appears at the head of the matches
VenueFill ==
    /\ \E t \in Tx :
         /\ t \notin Range(fills)
         /\ \A s \in Tx : s < t => s \in Range(fills)
         /\ fills' = <<t>> \o fills
    /\ sent' = <<>>
    /\ marketGot' = NoGet
    /\ UNCHANGED <<storeVars, phase, initQueue, ioVars, cacheVars, openOrders, book, diskFlaky, malformed, marketFlaky, clock, pollVars,
                   cmdVars, histVars>>

\* an order is placed, or an open order is filled or cancelled
VenueOrder ==
    /\ \E o \in Orders :
         openOrders' = IF o \in openOrders THEN openOrders \ {o} ELSE openOrders \cup {o}
    /\ sent' = <<>>
    /\ marketGot' = NoGet
    /\ UNCHANGED <<storeVars, phase, initQueue, ioVars, cacheVars, fills, book, diskFlaky, malformed, marketFlaky, clock, pollVars, cmdVars,
                   histVars>>

\* the orderbook moves
VenueBook ==
    /\ \E bk \in Books : bk # book /\ book' = bk
    /\ sent' = <<>>
    /\ marketGot' = NoGet
    /\ UNCHANGED <<storeVars, phase, initQueue, ioVars, cacheVars, fills, openOrders, diskFlaky, malformed, marketFlaky, clock, pollVars,
                   cmdVars, histVars>>

\* the cause of the failing writes of users.json goes away
DiskRepaired ==
    /\ diskFlaky
    /\ diskFlaky' = FALSE
    /\ sent' = <<>>
    /\ marketGot' = NoGet
    /\ UNCHANGED <<storeVars, phase, initQueue, ioVars, cacheVars, fills, openOrders, book, malformed, marketFlaky,
                   clock, pollVars, cmdVars, histVars>>

\* time passes
Tick ==
    /\ clock + TickSeconds <= MaxClock
    /\ clock' = clock + TickSeconds
    /\ sent' = <<>>
    /\ marketGot' = NoGet
    /\ UNCHANGED <<storeVars, phase, initQueue, ioVars, cacheVars, venueVars, pollVars, cmdVars, histVars>>

\* the inbound messages of the main specification
MainInbound ==
    {[chat |-> "c1", command |-> k, args |-> NoArgs] : k \in {"/stop", "/status"}}
    \cup {[chat |-> "c1", command |-> "/register", args |-> a] : a \in {AddrUpper, AddrShort}}

Next ==
    \/ InitUser
    \/ StartLoops
    \/ Poll
    \/ \E m \in MainInbound :
         \/ handle_register_rejected(m)
         \/ handle_register(m)
         \/ handle_status(m)
         \/ handle_stop_unregistered(m)
         \/ handle_stop(m)
    \/ CmdReply
    \/ VenueFill
    \/ VenueOrder

Spec == Init /\ [][Next]_vars

-----------------------------------------------------------------------------
(* The price alerts over time: one registered chat with an open order, no
   fills, the orderbook moving and the clock advancing *)

InitAlerts ==
    /\ Init
    /\ users # <<>>
    /\ fills = <<>>
    /\ openOrders = Orders

AlertsInbound ==
    {[chat |-> "c1", command |-> "/stop", args |-> NoArgs],
     [chat |-> "c1", command |-> "/register", args |-> AddrUpper]}

NextAlerts ==
    \/ InitUser
    \/ StartLoops
    \/ PollCycle \/ PollNext
    \/ FillFetch \/ FillLoop
    \/ OrderFetch \/ OrderLoop \/ OrderAdd \/ OrderStore \/ OrderSend
    \/ AlertFetch \/ AlertLoop \/ AlertPrice \/ AlertSend \/ AlertRecord
    \/ \E m \in AlertsInbound :
         \/ handle_register(m)
         \/ handle_stop_unregistered(m)
         \/ handle_stop(m)
    \/ CmdReply
    \/ VenueBook
    \/ Tick

SpecAlerts == InitAlerts /\ [][NextAlerts]_vars

-----------------------------------------------------------------------------
(* The band of the price alerts: one registered chat and one open order out of
   the orders of the venue, the orderbook moving between the polling cycles
   and within them *)

InitBand ==
    /\ users = ("c1" :> NewUser(AddrUpper))
    /\ userOrder = <<"c1">>
    /\ disk = users
    /\ diskFlaky = FALSE
    /\ malformed = FALSE
    /\ marketFlaky = FALSE
    /\ phase = "run"
    /\ initQueue = <<>>
    /\ fills = <<>>
    /\ \E o \in OrderIds : openOrders = {o}
    /\ book = StartBook
    /\ Idle
    /\ startKnown = {}

NextBand ==
    \/ PollCycle \/ PollNext
    \/ FillFetch \/ FillLoop
    \/ OrderFetch \/ OrderLoop \/ OrderAdd \/ OrderStore \/ OrderSend
    \/ AlertFetch \/ AlertLoop \/ AlertPrice \/ AlertSend \/ AlertRecord
    \/ VenueBook

SpecBand == InitBand /\ [][NextBand]_vars

-----------------------------------------------------------------------------
(* The orders the price-alert check passes over: one registered chat and one
   open order out of every order of the venue, with every orderbook *)

InitSkips ==
    /\ users = ("c1" :> NewUser(AddrUpper))
    /\ userOrder = <<"c1">>
    /\ disk = users
    /\ diskFlaky = FALSE
    /\ malformed = FALSE
    /\ marketFlaky = FALSE
    /\ phase = "run"
    /\ initQueue = <<>>
    /\ fills = <<>>
    /\ \E o \in VenueOrderIds : openOrders = {o}
    /\ book \in VenueBooks
    /\ Idle
    /\ startKnown = {}

NextSkips ==
    \/ PollCycle \/ PollNext
    \/ FillFetch \/ FillLoop
    \/ OrderFetch \/ OrderLoop \/ OrderAdd \/ OrderStore \/ OrderSend
    \/ AlertFetch \/ AlertLoop \/ AlertPrice \/ AlertSend \/ AlertRecord
    \/ VenueBook

SpecSkips == InitSkips /\ [][NextSkips]_vars

-----------------------------------------------------------------------------
(* Payloads that cannot be formatted: one registered chat, the venue answering
   with or without the market object the senders read (lines 269-272, 326,
   375) *)

InitPayload ==
    /\ users = ("c1" :> NewUser(AddrUpper))
    /\ userOrder = <<"c1">>
    /\ disk = users
    /\ diskFlaky = FALSE
    /\ malformed \in BOOLEAN
    /\ marketFlaky = FALSE
    /\ phase = "run"
    /\ initQueue = <<>>
    /\ fills = <<>>
    /\ openOrders = {}
    /\ book = StartBook
    /\ Idle
    /\ startKnown = {}

NextPayload == Poll \/ VenueFill \/ VenueOrder \/ Tick

SpecPayload == InitPayload /\ [][NextPayload]_vars

-----------------------------------------------------------------------------
(* The two threads on the User Store: fill checks of the first chat, which may
   send /stop, and a second chat that no operation names *)

InitStore ==
    /\ users = ("c1" :> NewUser(AddrUpper)) @@ ("c2" :> NewUser(AddrLower))
    /\ userOrder = <<"c1", "c2">>
    /\ disk = users
    /\ diskFlaky = FALSE
    /\ malformed = FALSE
    /\ marketFlaky = FALSE
    /\ phase = "run"
    /\ initQueue = <<>>
    /\ fills = <<>>
    /\ openOrders = {}
    /\ book = StartBook
    /\ Idle
    /\ startKnown = {}

StoreInbound == {[chat |-> "c1", command |-> "/stop", args |-> NoArgs]}

NextStore ==
    \/ PollCycle \/ PollNext
    \/ FillFetch \/ FillLoop \/ FillAdd \/ FillStoreOpen \/ FillSend
    \/ OrderFetch \/ OrderLoop
    \/ AlertFetch \/ AlertLoop
    \/ \E m \in StoreInbound : handle_stop_open(m)
    \/ \E t \in Threads : SaveDump(t) \/ SaveClose(t)
    \/ CmdReply
    \/ VenueFill

SpecStore == InitStore /\ [][NextStore]_vars

-----------------------------------------------------------------------------
(* Shutdown of the running bot: two registered chats, the first of them
   sending /stop, writes of users.json that fail for a while,
   and a user interrupt at any moment *)

InitShutdown ==
    /\ users = ("c1" :> NewUser(AddrUpper)) @@ ("c2" :> NewUser(AddrLower))
    /\ userOrder = <<"c1", "c2">>
    /\ disk = users
    /\ diskFlaky = TRUE
    /\ malformed = FALSE
    /\ marketFlaky = FALSE
    /\ phase = "run"
    /\ initQueue = <<>>
    /\ fills = <<1>>
    /\ openOrders = Orders
    /\ book = StartBook
    /\ Idle
    /\ startKnown = {}

NextShutdown ==
    \/ Poll
    \/ PollExit
    \/ \E m \in StoreInbound : handle_stop_unregistered(m) \/ handle_stop(m)
    \/ CmdReply
    \/ DiskRepaired
    \/ Interrupt
    \/ Stopped

SpecShutdown == InitShutdown /\ [][NextShutdown]_vars /\ WF_vars(Poll \/ PollExit)

-----------------------------------------------------------------------------
(* The inbound loop and its cursor: handle_updates fetches and hands the
   commands to process_command *)

InitUpdates ==
    /\ users = ("c1" :> NewUser(AddrUpper))
    /\ userOrder = <<"c1">>
    /\ disk = users
    /\ diskFlaky = FALSE
    /\ malformed = FALSE
    /\ marketFlaky = FALSE
    /\ phase = "run"
    /\ initQueue = <<>>
    /\ fills = <<>>
    /\ openOrders = {}
    /\ book = StartBook
    /\ Idle
    /\ startKnown = {}

NextUpdates ==
    \/ get_updates
    \/ \E m \in StoreInbound : handle_stop_unregistered(m) \/ handle_stop(m)
    \/ CmdReply

SpecUpdates == InitUpdates /\ [][NextUpdates]_vars

-----------------------------------------------------------------------------
(* The five writers of the User Store with a file that may fail to be written:
   the checks of one chat, which sends /register and /stop *)

InitFlaky ==
    /\ users = ("c1" :> NewUser(AddrUpper))
    /\ userOrder = <<"c1">>
    /\ disk = users
    /\ diskFlaky = TRUE
    /\ malformed = FALSE
    /\ marketFlaky = FALSE
    /\ phase = "run"
    /\ initQueue = <<>>
    /\ fills = <<1>>
    /\ openOrders = Orders
    /\ book = StartBook
    /\ Idle
    /\ startKnown = {}

FlakyInbound ==
    {[chat |-> "c1", command |-> "/stop", args |-> NoArgs],
     [chat |-> "c1", command |-> "/register", args |-> AddrLower]}

NextFlaky ==
    \/ Poll
    \/ \E m \in FlakyInbound :
         handle_register(m) \/ handle_stop_unregistered(m) \/ handle_stop(m)
    \/ CmdReply

SpecFlaky == InitFlaky /\ [][NextFlaky]_vars

-----------------------------------------------------------------------------
(* One polling cycle over two registered chats: the venue calls and the sends
   may fail, and the first chat may send /stop while the cycle runs *)

InitCycle ==
    /\ \E a \in {AddrUpper, AddrLower} :
         users = ("c1" :> NewUser(AddrUpper)) @@ ("c2" :> NewUser(a))
    /\ userOrder = <<"c1", "c2">>
    /\ disk = users
    /\ diskFlaky = FALSE
    /\ malformed = FALSE
    /\ marketFlaky = FALSE
    /\ phase = "run"
    /\ initQueue = <<>>
    /\ fills = <<1>>
    /\ openOrders = Orders
    /\ book = StartBook
    /\ Idle
    /\ startKnown = {}

CycleInbound == {[chat |-> "c1", command |-> "/stop", args |-> NoArgs]}

NextCycle ==
    \/ Poll
    \/ \E m \in CycleInbound :
         \/ handle_stop_unregistered(m)
         \/ handle_stop(m)
    \/ CmdReply

\* the polling thread is a thread of its own: it keeps taking steps
SpecCycle == InitCycle /\ [][NextCycle]_vars /\ WF_vars(Poll)

-----------------------------------------------------------------------------
(* The seen lists at their cap: calls of add_seen_tx and add_seen_order on a
   registration whose lists hold close to 500 ids *)

\* the ids a long-running registration has recorded, oldest first
StoredIds(n) == [i \in 1..n |-> 100 + i]

\* ids not yet recorded, the oldest and the newest recorded id
SeenInputs == {1, 2, 101, 100 + SeenCap}

InitSeen ==
    /\ \E n \in {SeenCap - 1, SeenCap}, k \in {SeenCap - 1, SeenCap} :
         users = ("c1" :> [NewUser(AddrUpper) EXCEPT !.seen_tx_hashes = StoredIds(n),
                                                    !.seen_order_hashes = StoredIds(k)])
    /\ userOrder = <<"c1">>
    /\ disk = users
    /\ diskFlaky = FALSE
    /\ malformed = FALSE
    /\ marketFlaky = FALSE
    /\ phase = "run"
    /\ initQueue = <<>>
    /\ fills = <<>>
    /\ openOrders = {}
    /\ book = StartBook
    /\ Idle
    /\ startKnown = {}

\* a call of add_seen_tx
AddSeenTx(chat_id, tx_hash) ==
    /\ \E st \in Saved([u |-> users, d |-> disk], add_seen_tx(users, chat_id, tx_hash)) :
         users' = st.u /\ disk' = st.d
    /\ sent' = <<>>
    /\ marketGot' = NoGet
    /\ UNCHANGED <<userOrder, phase, initQueue, ioVars, cacheVars, venueVars, clock, pollVars, cmdVars, histVars>>

\* a call of add_seen_order
AddSeenOrder(chat_id, order_hash) ==
    /\ \E st \in Saved([u |-> users, d |-> disk], add_seen_order(users, chat_id, order_hash)) :
         users' = st.u /\ disk' = st.d
    /\ sent' = <<>>
    /\ marketGot' = NoGet
    /\ UNCHANGED <<userOrder, phase, initQueue, ioVars, cacheVars, venueVars, clock, pollVars, cmdVars, histVars>>

NextSeen ==
    \E chat_id \in Chats, h \in SeenInputs :
        \/ AddSeenTx(chat_id, h)
        \/ AddSeenOrder(chat_id, h)

SpecSeen == InitSeen /\ [][NextSeen]_vars

-----------------------------------------------------------------------------
(* The cooldown map at its cap: calls of record_price_alert on a registration
   whose map holds close to 100 orders *)

\* the alerts a long-running registration has recorded, each at its own time
\* before the start of the model's clock
StoredAlerts(n) == [h \in 101..(100 + n) |-> h - 1000]

\* orders not yet recorded, the order recorded longest ago and the one recorded last
AlertInputs == {1, 2, 3, 101, 100 + AlertCap - 1}

InitAlertCap ==
    /\ \E n \in {AlertCap - 1, AlertCap} :
         users = ("c1" :> [NewUser(AddrUpper) EXCEPT !.price_alerts_sent = StoredAlerts(n)])
    /\ userOrder = <<"c1">>
    /\ disk = users
    /\ diskFlaky = FALSE
    /\ malformed = FALSE
    /\ marketFlaky = FALSE
    /\ phase = "run"
    /\ initQueue = <<>>
    /\ fills = <<>>
    /\ openOrders = {}
    /\ book = StartBook
    /\ Idle
    /\ startKnown = {}

\* a call of record_price_alert by the check of chat_id, lines 200-211 and
\* 901, and the pause that follows it (line 903): the next call is made at a
\* later time
RecordPriceAlert(chat_id, order_hash) ==
    /\ clock < MaxRecords
    /\ pollChat' = chat_id
    /\ \E st \in Saved([u |-> users, d |-> disk],
                        record_price_alert(users, chat_id, order_hash, clock)) :
         users' = st.u /\ disk' = st.d
    /\ clock' = clock + 1
    /\ sent' = <<>>
    /\ marketGot' = NoGet
    /\ UNCHANGED <<userOrder, phase, initQueue, ioVars, cacheVars, venueVars, pollPc, pollUsers, pollQueue,
                   pollResp, pollSeen, cmdVars, histVars>>

NextAlertCap ==
    \E chat_id \in Chats, h \in AlertInputs : RecordPriceAlert(chat_id, h)

SpecAlertCap == InitAlertCap /\ [][NextAlertCap]_vars

-----------------------------------------------------------------------------
(* The market cache alone: calls of get_market_cached for two markets, the
   venue answering with or without success, and time passing in steps of half
   the time-to-live *)

Markets == {MarketId, MarketId + 1}
CacheTick == MaxAgeSeconds \div 2
MaxCacheClock == 3 * MaxAgeSeconds

InitCache ==
    /\ users = ("c1" :> NewUser(AddrUpper))
    /\ userOrder = <<"c1">>
    /\ disk = users
    /\ diskFlaky = FALSE
    /\ malformed = FALSE
    /\ marketFlaky = TRUE
    /\ phase = "run"
    /\ initQueue = <<>>
    /\ fills = <<>>
    /\ openOrders = {}
    /\ book = StartBook
    /\ Idle
    /\ startKnown = {}

\* a call of get_market_cached(market_id), as lines 830 and 896 make it
GetMarketCached(market_id) ==
    /\ \E response \in MarketAnswers(clock) : get_market_cached(market_id, response)
    /\ sent' = <<>>
    /\ UNCHANGED <<storeVars, phase, initQueue, ioVars, venueVars, clock, pollVars, cmdVars,
                   histVars>>

\* the pauses of the polling loop between two calls
CachePause ==
    /\ clock + CacheTick <= MaxCacheClock
    /\ clock' = clock + CacheTick
    /\ sent' = <<>>
    /\ marketGot' = NoGet
    /\ UNCHANGED <<storeVars, phase, initQueue, ioVars, cacheVars, venueVars, pollVars, cmdVars,
                   histVars>>

NextCache ==
    \/ \E market_id \in Markets : GetMarketCached(market_id)
    \/ CachePause

SpecCache == InitCache /\ [][NextCache]_vars

-----------------------------------------------------------------------------
(* The texts of the inbound messages and their parsing by process_command *)

\* texts of messages, character by character
TextOf ==
    [start |-> <<"/", "s", "t", "a", "r", "t">>,
     help |-> <<"/", "h", "e", "l", "p">>,
     status |-> <<"/", "s", "t", "a", "t", "u", "s">>,
     orders |-> <<"/", "o", "r", "d", "e", "r", "s">>,
     stop |-> <<"/", "s", "t", "o", "p">>,
     stop_upper |-> <<"/", "S", "T", "O", "P">>,
     stop_bot |-> <<"/", "s", "t", "o", "p", "@", "b", "o", "t">>,
     stop_padded |-> <<" ", "/", "s", "t", "o", "p", " ">>,
     foo |-> <<"/", "f", "o", "o">>,
     slash |-> <<"/">>,
     stopnow |-> <<"/", "s", "t", "o", "p", "n", "o", "w">>,
     hi |-> <<"h", "i">>,
     stop_bare |-> <<"s", "t", "o", "p">>,
     hi_stop |-> <<"h", "i", " ", "/", "s", "t", "o", "p">>,
     register |-> <<"/", "r", "e", "g", "i", "s", "t", "e", "r">>,
     register_valid |-> <<"/", "r", "e", "g", "i", "s", "t", "e", "r", " ">> \o AddrUpper,
     register_short |-> <<"/", "r", "e", "g", "i", "s", "t", "e", "r", " ">> \o AddrShort]

Texts == {TextOf[n] : n \in DOMAIN TextOf}

\* the index of the first character of s that satisfies Stop(_), Len(s) + 1 if none does
FirstIndex(s, Stop(_)) ==
    IF \E i \in 1..Len(s) : Stop(s[i])
    THEN CHOOSE i \in 1..Len(s) : Stop(s[i]) /\ \A j \in 1..(i - 1) : ~Stop(s[j])
    ELSE Len(s) + 1

\* line 704: text.split(maxsplit=1) of a stripped text that is not empty
SplitOnce(text) ==
    LET cut == FirstIndex(text, IsSpace)
    IN  IF cut > Len(text) THEN <<text>>
        ELSE <<SubSeq(text, 1, cut - 1), LStrip(SubSeq(text, cut, Len(text)))>>

\* line 705: s.split('@')[0]
BeforeAt(s) == SubSeq(s, 1, FirstIndex(s, LAMBDA ch : ch = "@") - 1)

\* lines 710-723: the command that the chain of comparisons selects
Dispatched(token) ==
    CASE token = <<"/", "s", "t", "a", "r", "t">> -> "/start"
      [] token = <<"/", "r", "e", "g", "i", "s", "t", "e", "r">> -> "/register"
      [] token = <<"/", "s", "t", "a", "t", "u", "s">> -> "/status"
      [] token = <<"/", "o", "r", "d", "e", "r", "s">> -> "/orders"
      [] token = <<"/", "s", "t", "o", "p">> -> "/stop"
      [] token = <<"/", "h", "e", "l", "p">> -> "/help"
      [] OTHER -> "/unknown"

\* a text read as if every text were a command
Message_unslashed(chat_id, message_text) ==
    LET text == Strip(message_text)
        parts == SplitOnce(text)
    IN  [chat |-> chat_id,
         command |-> Dispatched(BeforeAt(Lower(<<"/">> \o parts[1]))),
         args |-> IF Len(parts) > 1 THEN parts[2] ELSE NoArgs]

\* lines 695-706: chat id, command and arguments of a message with a text
Message(chat_id, message_text) ==
    LET text == Strip(message_text)
        parts == SplitOnce(text)
    IN  IF text = <<>> \/ text[1] # "/"
        THEN [chat |-> chat_id, command |-> "text", args |-> NoArgs]
        ELSE [chat |-> chat_id,
              command |-> Dispatched(BeforeAt(Lower(parts[1]))),
              args |-> IF Len(parts) > 1 THEN parts[2] ELSE NoArgs]

-----------------------------------------------------------------------------
(* The commands alone: every inbound message, on a store that holds a
   registration with recorded ids or none, with a file that may fail to be
   written *)

\* a registration that has recorded a fill, an order and a price alert
UsedUser ==
    [NewUser(AddrLower) EXCEPT !.seen_tx_hashes = <<1>>,
                               !.seen_order_hashes = <<11>>,
                               !.price_alerts_sent = (11 :> 0)]

InitCommands ==
    /\ \/ users = EmptyMap /\ userOrder = <<>>
       \/ users = ("c1" :> UsedUser) /\ userOrder = <<"c1">>
    /\ disk = users
    /\ diskFlaky = TRUE
    /\ malformed = FALSE
    /\ marketFlaky = FALSE
    /\ phase = "run"
    /\ initQueue = <<>>
    /\ fills = <<>>
    /\ openOrders \in {{}, Orders}
    /\ book = StartBook
    /\ Idle
    /\ startKnown = {}

NextCommands ==
    \/ \E m \in Inbound : process_command(m)
    \/ CmdReply

SpecCommands == InitCommands /\ [][NextCommands]_vars

\* the messages of every chat with every text, as process_command reads them
Parsed == [chat_id \in Chats, text \in Texts |-> Message(chat_id, text)]

\* the same store and the messages as texts, from every chat
NextDispatch ==
    \/ \E chat_id \in Chats, text \in Texts :
         \E m \in {Parsed[chat_id, text]} : process_command(m)
    \/ CmdReply

SpecDispatch == InitCommands /\ [][NextDispatch]_vars

-----------------------------------------------------------------------------
(* Properties of the fill check *)

\* the polling thread takes a step of check_orders_for_user
FillCheckStep ==
    /\ pollPc \in {"fill_loop", "fill_add", "fill_store", "fill_send"}
    /\ <<pollPc, pollResp>>' # <<pollPc, pollResp>>

\* C1, as the specification states it: once a transaction id is recorded as
\* seen for a chat, no later fill check sends a "filled" notification for that
\* id to that chat, after any sequence of polling cycles and commands.
C1_NeverNotifiedAgain ==
    [][\A i \in 1..Len(sent') :
          sent'[i].kind = "filled" => <<sent'[i].to, sent'[i].id>> \notin everSeenTx]_vars

\* C1, amended: a fill check that finds the transaction id in the seen-fill list
\* of the chat when it examines the match sends no "filled" notification for
\* it to that chat; the id can be notified again only after the registration
\* was replaced or removed, or the id was evicted from the list.
C1_SeenNotNotified ==
    \A i \in 1..Len(sent) : sent[i].kind = "filled" => ~pollFound

\* C1: the venue reported again an id of the seen-fill list, and the fill check
\* passed over it
C1_Witness ==
    /\ pollPc = "fill_loop"
    /\ pollFound
    /\ sent = <<>>
    /\ pollChat \in DOMAIN users
    /\ Range(fills) \cap Range(users[pollChat].seen_tx_hashes) # {}

\* C2: a fill check of a registered chat that fetched the same set of matches
\* as the fill check before it sends no notification and leaves the User Store
\* unchanged, in memory and on disk.
C2_FillCheckIdempotent ==
    [][(pollRepeat /\ FillCheckStep) =>
          /\ pollPc = "fill_loop"
          /\ pollPc' \in {"fill_loop", "order_fetch"}
          /\ sent' = <<>>
          /\ marketGot' = NoGet
          /\ UNCHANGED <<users, userOrder, disk>>]_vars

\* C2: the second of two fill checks over the same non-empty set of matches
\* has examined every match
C2_Witness ==
    /\ pollRepeat
    /\ pollPc = "fill_loop"
    /\ pollResp = <<>>
    /\ lastFill[pollChat].ids # {}

\* C3: for a user registered when the bot starts, no fill and no open order
\* that the venue reported at startup is ever notified as "filled" or "placed".
C3_NoHistoricalNotification ==
    \A i \in 1..Len(sent) :
        /\ sent[i].kind = "filled" => <<sent[i].to, "tx", sent[i].id>> \notin startKnown
        /\ sent[i].kind = "placed" => <<sent[i].to, "order", sent[i].id>> \notin startKnown

-----------------------------------------------------------------------------
(* Properties of the seen lists *)

AfterAdd(seen, h) ==
    IF \E i \in 1..Len(seen) : seen[i] = h THEN seen
    ELSE IF Len(seen) < SeenCap THEN seen \o <<h>>
    ELSE [i \in 1..Len(seen) |-> IF i < Len(seen) THEN seen[i + 1] ELSE h]

\* C7: eviction is oldest-first by insertion: adding an unseen id to a list of
\* 500 entries removes exactly the earliest-added entry, keeps the order of the
\* others and puts the new id last; adding an id that is in the list changes
\* neither the content nor the order of the list.
C7_OldestFirst ==
    /\ [][\A c \in DOMAIN users, h \in SeenInputs :
             /\ AddSeenTx(c, h) =>
                   users' = [users EXCEPT ![c].seen_tx_hashes = AfterAdd(@, h)]
             /\ AddSeenOrder(c, h) =>
                   users' = [users EXCEPT ![c].seen_order_hashes = AfterAdd(@, h)]]_vars
    /\ [](\A c \in DOMAIN users, h \in SeenInputs :
             /\ add_seen_tx(users, c, h) =
                   [users EXCEPT ![c].seen_tx_hashes = AfterAdd(@, h)]
             /\ add_seen_order(users, c, h) =
                   [users EXCEPT ![c].seen_order_hashes = AfterAdd(@, h)])

\* C7: an unseen id was added to the full seen-fill list: the earliest entry is
\* gone, the others moved up in order, the new id is last
C7_Witness ==
    /\ "c1" \in DOMAIN users
    /\ users["c1"].seen_tx_hashes =
           [i \in 1..SeenCap |-> IF i < SeenCap THEN 101 + i ELSE 1]

-----------------------------------------------------------------------------
(* Properties of the price alerts *)

\* a price alert is sent
AlertSent == pollPc = "alert_send" /\ pollPc' = "alert_record"

\* C4, as the specification states it: once a price alert was sent to a chat for
\* an order, no further price alert for that order is sent to that chat during
\* the following 3600 seconds.
C4_OncePerWindow ==
    [][AlertSent =>
          LET last == lastAlertAt[<<pollChat, Head(pollResp)>>]
          IN  last = NoTime \/ clock - last > CooldownSeconds]_vars

\* C4, amended: once a price alert was sent to a chat for an order, no further
\* price alert for that order is sent to that chat during the following 3600
\* seconds, unless the chat registered again in between: a price-alert check
\* that finds a timestamp of at most 3600 seconds ago for the order in the
\* cooldown map of the chat sends nothing, and /register empties the map.
C4_OncePerWindowOfRegistration ==
    /\ [][AlertSent =>
             LET last == alertedAt[<<pollChat, Head(pollResp)>>]
             IN  last = NoTime \/ clock - last > CooldownSeconds]_vars
    /\ [](\A i \in 1..Len(sent) : sent[i].kind = "price_alert" => ~pollFound)

\* C4: within 3600 seconds of its alert the order is still in the band, and the
\* price-alert check of a later cycle has looked it up and passed over it
C4_Witness ==
    /\ pollPc = "alert_loop"
    /\ pollFound
    /\ pollResp = <<>>
    /\ \E o \in Orders :
         /\ alertedAt[<<pollChat, o>>] # NoTime
         /\ clock - alertedAt[<<pollChat, o>>] <= CooldownSeconds
         /\ AlertDecisions[o, book]

\* the price-alert check decides on the order at the head of its list
AlertDecided == pollPc = "alert_price" /\ pollPc' # "alert_price"

\* 0 <= d <= 10 for the implied price P of order o and the best opposing-side
\* price C of orderbook bk, with d = (C - P) / P * 100 for BUY and
\* d = (P - C) / P * 100 for SELL, P = pn / pd and C = c / 100
InBand(o, bk) ==
    LET order == OrderData(o)
        pn == IF order.side = 0 THEN order.makerAmount ELSE order.takerAmount
        pd == IF order.side = 0 THEN order.takerAmount ELSE order.makerAmount
        c == IF order.side = 0 THEN bk.ask ELSE bk.bid
        num == IF order.side = 0 THEN c * pd - 100 * pn ELSE 100 * pn - c * pd
    IN  /\ 0 <= num
        /\ 100 * num <= BandPct * 100 * pn

\* C5: for an open LIMIT order that is not under cooldown, with implied price
\* P > 0 and best opposing-side price C > 0, the price-alert check sends an
\* alert if and only if 0 <= d <= 10, where d = (C - P) / P * 100 for a BUY
\* order and d = (P - C) / P * 100 for a SELL order.
C5_AlertIffInBand ==
    [][AlertDecided /\ book.ok
           /\ (IF OrderData(Head(pollResp)).side = 0 THEN book.ask ELSE book.bid) > 0 =>
          ((pollPc' = "alert_send") <=> InBand(Head(pollResp), book))]_vars

-----------------------------------------------------------------------------
(* Properties of /register and /stop *)

\* 0x followed by exactly 40 hexadecimal characters
IsAddress(a) ==
    /\ Len(a) = 42
    /\ SubSeq(a, 1, 2) = <<"0", "x">>
    /\ \A i \in 3..Len(a) :
         a[i] \in {"0", "1", "2", "3", "4", "5", "6", "7", "8", "9",
                   "a", "b", "c", "d", "e", "f", "A", "B", "C", "D", "E", "F"}

\* C8: a /register whose argument is missing or is not 0x followed by exactly
\* 40 hexadecimal characters is answered with a validation-error reply and
\* leaves the User Store unchanged, in memory and on disk.
C8_InvalidRegisterRejected ==
    [][\A m \in Inbound :
          (m.command = "/register" /\ ~IsAddress(Strip(m.args)) /\ process_command(m)) =>
              /\ Len(sent') = 1
              /\ sent'[1].to = m.chat
              /\ sent'[1].kind \in {"usage", "invalid_address"}
              /\ UNCHANGED <<users, userOrder, disk, cmdPc>>]_vars

\* C8: a chat with a registration and recorded ids was refused an address, and
\* its registration is as it was
C8_Witness ==
    /\ Len(sent) = 1
    /\ sent[1].kind = "invalid_address"
    /\ sent[1].to \in DOMAIN users
    /\ users[sent[1].to] = UsedUser

\* no upper-case letter is left in the address
IsLowerCased(address) ==
    \A i \in 1..Len(address) : address[i] \notin {"A", "B", "C", "D", "E", "F", "X"}

\* the record is a registration of the address with nothing recorded in it
IsFreshRegistration(user, address) ==
    /\ user.wallet_address = Lower(address)
    /\ IsLowerCased(user.wallet_address)
    /\ user.active
    /\ user.seen_tx_hashes = <<>>
    /\ user.seen_order_hashes = <<>>
    /\ user.price_alerts_sent = EmptyMap

\* C9: a valid /register always overwrites: register_user leaves the chat with
\* the lower-cased address, active, with empty seen lists and an empty cooldown
\* map, whatever the chat had before, and nothing of a prior registration is
\* merged in afterwards: every id the seen lists of a registration hold was
\* added since that registration was made.
C9_RegisterOverwrites ==
    /\ [][\A m \in MainInbound :
             handle_register(m) =>
                 /\ m.chat \in DOMAIN users'
                 /\ IsFreshRegistration(users'[m.chat], Strip(m.args))]_vars
    /\ [](\A c \in DOMAIN users : Held(users[c]) \subseteq sinceReg[c])

\* C10: after /stop of a registered chat the chat has no registration until
\* its next valid /register: the /stop removes the registration, only
\* register_user of a valid /register creates one, no step of the polling
\* thread does, and /status of a chat without registration replies
\* "not registered".
C10_StoppedUntilRegister ==
    [][/\ \A m \in MainInbound : handle_stop(m) => m.chat \notin DOMAIN users'
       /\ \A c \in Chats :
            (c \notin DOMAIN users /\ c \in DOMAIN users') =>
                \E m \in MainInbound : m.chat = c /\ handle_register(m)
       /\ \A m \in MainInbound :
            (handle_status(m) /\ m.chat \notin DOMAIN users) =>
                (Len(sent') = 1 /\ sent'[1].to = m.chat /\ sent'[1].kind = "not_registered")]_vars

\* C10: the polling thread went on with the check of a chat that /stop had
\* removed meanwhile, and the chat still has no registration
C10_Witness ==
    /\ pollChat \in Chats
    /\ pollChat \notin DOMAIN users
    /\ Len(sent) = 1
    /\ sent[1].kind \in {"filled", "placed", "price_alert"}
    /\ sent[1].to = pollChat

-----------------------------------------------------------------------------
(* Properties of the polling loop against /stop and failures *)

\* the three notifications of the polling loop
Notifications == {"filled", "placed", "price_alert"}

\* C11: after /stop has been processed for a chat (its reply sent), the
\* polling loop sends no filled, placed or price-alert notification to that
\* chat until the chat registers again, also when the /stop is processed while
\* a polling cycle that listed the chat as active is in progress.
C11_SilentAfterStop ==
    \A i \in 1..Len(sent) :
        (sent[i].kind \in Notifications /\ cmdPc = "wait") => sent[i].to \in DOMAIN users

\* the positions of the polling thread inside the fill check, the new-order
\* check and the price-alert check
FillCheckPcs == {"fill_fetch", "fill_loop", "fill_add", "fill_store", "fill_send"}
OrderCheckPcs == {"order_fetch", "order_loop", "order_add", "order_store", "order_send"}
AlertCheckPcs == {"alert_fetch", "alert_loop", "alert_price", "alert_send", "alert_record"}

-----------------------------------------------------------------------------
(* Properties of the senders on payloads that cannot be formatted *)

SendPcs == {"fill_send", "order_send", "alert_send"}

\* C13: for each of the three notification kinds, a send whose payload cannot be
\* formatted still sends one generic fallback message to the chat.
C13_FallbackSent ==
    [][(malformed /\ pollPc \in SendPcs /\ pollPc' # pollPc) =>
          (Len(sent') = 1 /\ sent'[1].to = pollChat /\ sent'[1].kind = "fallback")]_vars

-----------------------------------------------------------------------------
(* Properties of the User Store under the two threads *)

\* C14: whatever the two threads do to the record of the first chat, once no
\* _save is in progress the second chat holds its registration unchanged, in
\* memory and in the persisted document.
C14_OtherChatsKept ==
    (\A t \in Threads : saving[t] = NoFile) =>
        /\ "c2" \in DOMAIN users /\ users["c2"] = NewUser(AddrLower)
        /\ "c2" \in DOMAIN disk /\ disk["c2"] = NewUser(AddrLower)

-----------------------------------------------------------------------------
(* Properties of the shutdown *)

\* C15: on a user interrupt run() clears the running flag, waits for the polling
\* thread and saves the User Store before the bot stops: when the bot stops
\* and users.json can be written, the file holds the store.
C15_FinalSave ==
    [][(phase # "stopped" /\ phase' = "stopped" /\ ~diskFlaky) => disk' = users]_vars

\* C20: once the running flag is cleared the polling loop begins the checks of
\* no further user, its wait between two cycles ends with the loop left, and
\* the polling thread reaches the end of poll_orders unless the process ends
\* first; the inbound loop has ended and processes no further command.
C20_LoopsExit ==
    /\ [][phase # "run" =>
             /\ pollPc' = "fill_fetch" => pollPc = "fill_fetch"
             /\ pollPc = "sleep" => pollPc' \in {"sleep", "done", "killed"}
             /\ pollPc = "done" => pollPc' = "done"
             /\ UNCHANGED <<cmdPc, cmdReply, userOrder>>]_vars
    /\ [](phase \in {"stopping", "stopped"} => cmdPc = "done")
    /\ (phase = "stopping") ~> (pollPc = "done" \/ phase = "stopped")

\* the flag is cleared in the middle of a cycle, users of the snapshot are left
\* unvisited and the polling thread has ended
C20_Witness ==
    /\ phase = "stopping"
    /\ pollPc = "done"
    /\ pollQueue = <<"c2">>
    /\ "c2" \in DOMAIN users

-----------------------------------------------------------------------------
(* Properties of the cursor of the inbound updates *)

\* C16: last_update_id changes only by a successful fetch that returns at least
\* one update and is then the id of the last update of the batch; a failed
\* fetch and an empty result leave it unchanged; every fetch asks for the
\* offset last_update_id + 1; and the cursor does not decrease in a fetch whose
\* updates all have ids at or above the offset asked for.
C16_Cursor ==
    [][/\ last_update_id' # last_update_id =>
            /\ updates'.ok /\ updates'.result # <<>>
            /\ last_update_id' = updates'.result[Len(updates'.result)]
       /\ updates' # updates =>
            /\ updates'.offset = last_update_id + 1
            /\ (~updates'.ok \/ updates'.result = <<>>) => last_update_id' = last_update_id
            /\ (updates'.ok /\ updates'.result # <<>>) =>
                  last_update_id' = updates'.result[Len(updates'.result)]
            /\ (\A i \in 1..Len(updates'.result) : updates'.result[i] >= updates'.offset) =>
                  last_update_id' >= last_update_id]_vars

\* a fetch of two updates above the offset has moved the cursor past the first
C16_Witness ==
    /\ updates.ok
    /\ Len(updates.result) = 2
    /\ updates.offset <= updates.result[1]
    /\ updates.result[1] < updates.result[2]
    /\ updates.offset > 1
    /\ last_update_id = updates.result[2]

-----------------------------------------------------------------------------
(* Properties of the startup pass *)

\* C17: the startup pass ends for all users before the two loops start and
\* sends no message, and a fetch of the pass that succeeds leaves every
\* transaction id and order hash it returned in the seen lists of its user,
\* where they still are when the loops start.
C17_StartupPass ==
    /\ [](phase = "init" => PollIdle /\ cmdPc = "wait" /\ sent = <<>>)
    /\ [][phase = "init" =>
             /\ sent' = <<>>
             /\ marketGot' = NoGet
             /\ phase' = "run" => initQueue = <<>>
             /\ \A c \in DOMAIN users : c \notin Range(initQueue) =>
                    c \in DOMAIN users' /\ users'[c] = users[c]]_vars
    /\ [](\A c \in Range(initQueue), okMatches \in BOOLEAN, okOrders \in BOOLEAN :
            \A st \in InitResults(c, okMatches, okOrders) :
               /\ okMatches =>
                     Range(MatchesFor(users[c].wallet_address)) \subseteq Range(st.u[c].seen_tx_hashes)
               /\ okOrders =>
                     Range(OpenOrdersFor(users[c].wallet_address))
                         \subseteq Range(st.u[c].seen_order_hashes))

\* the loops have just started, and the match and the order that the venue held
\* for a stored registration without seen ids are in its lists
C17_Witness ==
    /\ phase = "run" /\ PollIdle /\ cmdPc = "wait" /\ clock = 0
    /\ \E c \in DOMAIN users :
         /\ {<<c, "tx", 1>>, <<c, "order", 11>>} \subseteq startKnown
         /\ sinceReg[c] = {<<"tx", 1>>, <<"order", 11>>}
         /\ users[c].seen_tx_hashes = <<1>>
         /\ users[c].seen_order_hashes = <<11>>

-----------------------------------------------------------------------------
(* Properties of the checks when the venue call fails *)

\* the step of a check that makes its venue call
Fetched(pc) == pollPc = pc /\ pollPc' # pc

\* C18: the venue call of a check sends nothing and changes nothing in the User
\* Store; when it is unsuccessful the check ends there, without a second call,
\* and the next check starts; when it succeeds the check goes through
\* everything the venue returned, and a match returned that is not in the seen
\* list of its user is notified.
C18_FailedFetch ==
    /\ [][/\ (Fetched("fill_fetch") \/ Fetched("order_fetch") \/ Fetched("alert_fetch")) =>
               sent' = <<>> /\ UNCHANGED <<users, userOrder, disk>>
          /\ Fetched("fill_fetch") =>
               \/ pollPc' = "order_fetch" /\ pollResp' = <<>>
               \/ pollPc' = "fill_loop" /\ pollResp' = MatchesFor(pollUsers[pollChat])
          /\ Fetched("order_fetch") =>
               \/ pollPc' = "alert_fetch" /\ pollResp' = <<>>
               \/ pollPc' = "order_loop" /\ pollResp' = OpenOrdersFor(pollUsers[pollChat])
          /\ Fetched("alert_fetch") =>
               \/ pollPc' = "next" /\ pollResp' = <<>>
               \/ pollPc' = "alert_loop" /\ pollResp' = OpenOrdersFor(pollUsers[pollChat])]_vars
    /\ (/\ pollChat = "c2" /\ pollPc = "fill_loop" /\ pollResp = <<1>>
        /\ 1 \notin Range(users["c2"].seen_tx_hashes))
          ~> (\E ok \in BOOLEAN : sent = <<Msg("c2", "filled", 1, ok)>>)

\* the fill check of the second chat has just failed while the venue holds a
\* match of its wallet that it has not seen
C18_Witness ==
    /\ pollChat = "c2" /\ pollPc = "order_fetch" /\ pollResp = <<>>
    /\ ~lastFill["c2"].valid
    /\ "c2" \in DOMAIN users
    /\ MatchesFor(pollUsers["c2"]) = <<1>>
    /\ users["c2"].seen_tx_hashes = <<>>
    /\ sent = <<>>

-----------------------------------------------------------------------------
(* Properties of the writers of the User Store when the file cannot be written *)

\* the handler of a command has run and is about to send the reply of this kind
Handled(kind) == cmdPc = "wait" /\ cmdPc' = "reply" /\ cmdReply'.kind = kind

\* C19: register_user, unregister_user, add_seen_tx, add_seen_order and
\* record_price_alert end without raising whether the file was written or not,
\* and the User Store in memory holds their change: get_user, has_seen_tx,
\* has_seen_order and can_send_price_alert answer from it.
C19_MemoryKeepsChange ==
    [][/\ disk' \in {disk, users'}
       /\ Handled("registered") =>
            /\ cmdReply'.to \in DOMAIN users'
            /\ users'[cmdReply'.to] = NewUser(AddrLower)
       /\ Handled("unregistered") => cmdReply'.to \notin DOMAIN users'
       /\ (pollPc = "fill_store" /\ pollPc' = "fill_send") =>
            has_seen_tx(users', pollChat, Head(pollResp))
       /\ (pollPc = "order_store" /\ pollPc' = "order_send") =>
            has_seen_order(users', pollChat, Head(pollResp))
       /\ (pollPc = "alert_record" /\ pollPc' = "alert_loop" /\ pollChat \in DOMAIN users) =>
            ~can_send_price_alert(users', pollChat, OrderData(Head(pollResp)).hash, clock)]_vars

\* add_seen_tx has returned, the file was not written, and has_seen_tx answers
\* from memory
C19_Witness ==
    /\ pollPc = "fill_send"
    /\ pollChat \in DOMAIN users /\ pollChat \in DOMAIN disk
    /\ has_seen_tx(users, pollChat, Head(pollResp))
    /\ ~has_seen_tx(disk, pollChat, Head(pollResp))

-----------------------------------------------------------------------------
(* Properties of the orders the price-alert check passes over *)

\* the order is no LIMIT order, lacks its market id or its hash, or has an
\* implied price of 0: takerAmount 0 for BUY, makerAmount 0 for SELL
OrderSkipped(o) ==
    LET order == OrderData(o)
    IN  \/ order.strategy # "LIMIT"
        \/ order.marketId = NoId
        \/ order.hash = NoId
        \/ order.side = 0 /\ order.takerAmount = 0
        \/ order.side # 0 /\ order.makerAmount = 0

\* the orderbook fetch is unsuccessful, or the side opposing order o is empty or
\* its best price is not positive
PriceUnavailable(o, bk) ==
    \/ ~bk.ok
    \/ (IF OrderData(o).side = 0 THEN bk.ask ELSE bk.bid) <= 0

\* C21: the price-alert check sends no alert and records no cooldown timestamp
\* for an order whose strategy is not LIMIT, whose market id or order hash is
\* missing, whose implied price is 0 because the denominator amount is 0, or
\* whose best opposing-side price is unavailable or not positive: the step that
\* examines such an order goes on to no send and no record, sends nothing and
\* leaves the store as it is, and no alert or cooldown of such an order exists.
C21_NoAlertForSkipped ==
    /\ [][(/\ pollPc \in {"alert_loop", "alert_price"}
            /\ pollResp # <<>>
            /\ \/ OrderSkipped(Head(pollResp))
               \/ pollPc = "alert_price" /\ PriceUnavailable(Head(pollResp), book)) =>
              /\ pollPc' \notin {"alert_send", "alert_record"}
              /\ sent' = <<>>
              /\ marketGot' = NoGet
              /\ users' = users
              /\ disk' = disk
              /\ (pollPc = "alert_price" /\ pollPc' # pollPc) => pollResp' = Tail(pollResp)]_vars
    /\ [](\A o \in SkippedOrders :
             /\ pollPc \in {"alert_send", "alert_record"} => Head(pollResp) # o
             /\ \A c \in Chats : lastAlertAt[<<c, o>>] = NoTime
             /\ \A c \in DOMAIN users :
                  \A h \in DOMAIN users[c].price_alerts_sent : h # NoId /\ h # o)

\* the check has passed over the BUY order with takerAmount 0 and has ended
C21_Witness ==
    /\ openOrders = {18}
    /\ pollPc = "next"
    /\ pollChat = "c1"
    /\ users["c1"].seen_order_hashes = <<18>>
    /\ users["c1"].price_alerts_sent = EmptyMap

-----------------------------------------------------------------------------
(* Properties of the cooldown map *)

\* C22: after any sequence of record_price_alert calls the cooldown map of a
\* chat holds at most 100 entries; a call keeps the entry it records, with the
\* time of the call, leaves the timestamps of the other entries it keeps as
\* they were, and every entry it drops has a timestamp no newer than any entry
\* it keeps.
C22_CooldownMapCapped ==
    /\ [](\A c \in DOMAIN users : Cardinality(DOMAIN users[c].price_alerts_sent) <= AlertCap)
    /\ [][\A c \in DOMAIN users :
             (clock' # clock /\ pollChat' = c) =>
               LET old == users[c].price_alerts_sent
                   new == users'[c].price_alerts_sent
               IN  /\ \E h \in DOMAIN new : new[h] = clock
                   /\ \A k \in DOMAIN new :
                        new[k] # clock => k \in DOMAIN old /\ old[k] = new[k]
                   /\ \A d \in DOMAIN old \ DOMAIN new :
                        \A k \in DOMAIN new : old[d] <= new[k]
                   /\ Cardinality(DOMAIN old \ DOMAIN new) <= 1]_vars

\* the map is full, the order recorded longest ago has been dropped for a new one
C22_Witness ==
    /\ Cardinality(DOMAIN users["c1"].price_alerts_sent) = AlertCap
    /\ 101 \notin DOMAIN users["c1"].price_alerts_sent
    /\ 1 \in DOMAIN users["c1"].price_alerts_sent
    /\ 100 + AlertCap \in DOMAIN users["c1"].price_alerts_sent

-----------------------------------------------------------------------------
(* Properties of the market cache *)

\* the step makes a call of get_market_cached
MarketCall == marketGot' # NoGet

\* C23: get_market_cached returns the cached response and makes no venue call
\* when the market has a cached entry that was fetched less than 60 seconds
\* ago; in every other case it makes exactly one venue call and returns the
\* response of that call.
C23_CachedOrFetched ==
    [][MarketCall =>
          LET m == marketGot'.market_id
          IN  IF m \in DOMAIN market_cache /\ clock - market_cache[m].at < 60
              THEN /\ marketGot'.calls = <<>>
                   /\ marketGot'.response = market_cache[m]
              ELSE /\ Len(marketGot'.calls) = 1
                   /\ marketGot'.calls[1].at = clock
                   /\ marketGot'.response = marketGot'.calls[1]]_vars

\* a call has been answered from an entry fetched 30 seconds before
C23_Witness ==
    /\ marketGot.market_id = MarketId
    /\ marketGot.calls = <<>>
    /\ marketGot.response = Response(TRUE, clock - 30)
    /\ MarketId + 1 \notin DOMAIN market_cache

\* C24: the market cache only ever holds successful venue responses, each with
\* the time of its fetch; a fetch without success is returned to the caller
\* and leaves the cache, an expired entry of the market and its time included,
\* as it was; no step removes an entry from the cache.
C24_OnlySuccessesCached ==
    /\ [](\A m \in DOMAIN market_cache :
             /\ market_cache[m].success
             /\ m \in DOMAIN market_cache_time
             /\ market_cache_time[m] = market_cache[m].at)
    /\ [][(MarketCall /\ marketGot'.calls # <<>> /\ ~marketGot'.calls[1].success) =>
              /\ marketGot'.response = marketGot'.calls[1]
              /\ market_cache' = market_cache
              /\ market_cache_time' = market_cache_time]_vars
    /\ [][DOMAIN market_cache \subseteq DOMAIN market_cache'
            /\ DOMAIN market_cache_time \subseteq DOMAIN market_cache_time']_vars

\* a fetch without success has been returned while the expired entry of the
\* market stays in the cache
C24_Witness ==
    /\ marketGot.market_id = MarketId
    /\ marketGot.calls = <<Response(FALSE, clock)>>
    /\ marketGot.response = Response(FALSE, clock)
    /\ MarketId \in DOMAIN market_cache
    /\ market_cache[MarketId] = Response(TRUE, clock - 90)
    /\ market_cache_time[MarketId] = clock - 90

-----------------------------------------------------------------------------
(* Properties of the dispatch of the inbound messages *)

\* the texts by what they are: no command, a command the bot does not know, a
\* /register with a valid address, a /stop
PlainTexts == {TextOf.hi, TextOf.stop_bare, TextOf.hi_stop}
UnknownTexts == {TextOf.foo, TextOf.slash, TextOf.stopnow}
RegisterTexts == {TextOf.register_valid}
StopTexts == {TextOf.stop, TextOf.stop_upper, TextOf.stop_bot, TextOf.stop_padded}

\* C25: of all inbound messages only /register with a valid address and /stop
\* of a registered chat change the User Store; /start, /help, /status,
\* /orders, unknown commands and text that is no command leave it unchanged;
\* text that does not start with / produces no reply, and a command that is
\* not recognised produces exactly one "unknown command" reply.
C25_OnlyRegisterAndStopWrite ==
    [][\A c \in Chats, text \in Texts :
          (\E m \in {Parsed[c, text]} : process_command(m)) =>
              /\ (~(text \in RegisterTexts \/ (text \in StopTexts /\ c \in DOMAIN users))) =>
                     UNCHANGED <<users, userOrder, disk>>
              /\ text \in PlainTexts => (sent' = <<>> /\ cmdPc' = "wait")
              /\ text \in UnknownTexts =>
                     /\ Len(sent') = 1
                     /\ sent'[1].to = c
                     /\ sent'[1].kind = "unknown_command"
                     /\ cmdPc' = "wait"]_vars

\* a command that is not recognised was answered to a registered chat whose
\* registration is as it was
C25_Witness ==
    /\ Len(sent) = 1
    /\ sent[1].kind = "unknown_command"
    /\ sent[1].to = "c1"
    /\ "c1" \in DOMAIN users
    /\ users["c1"] = UsedUser
    /\ disk = users

-----------------------------------------------------------------------------
(* C26: recording before sending, in the fill check and the new-order check *)

\* the seen list of a kind of id in the record of a chat
SeenList(c, kind) ==
    IF c \notin DOMAIN users THEN <<>>
    ELSE IF kind = "tx" THEN users[c].seen_tx_hashes ELSE users[c].seen_order_hashes

\* the kind of id a step of the polling thread at this position is about
KindAt(pc) == IF pc \in {"fill_add", "fill_store", "fill_send"} THEN "tx" ELSE "order"

-----------------------------------------------------------------------------
(* C27: a /register between the steps of a writer of the polling thread *)

\* C27: when a valid /register of a chat falls between the steps of an
\* add_seen_tx or add_seen_order that the polling thread executes for that
\* chat, the write the polling thread still has to make does not undo the
\* reset: the seen lists of the registration hold, after that write, only ids
\* recorded since the registration was made.
C27_ResetNotUndone ==
    [][(/\ pollPc \in {"fill_store", "order_store"}
        /\ pollPc' # pollPc
        /\ pollChat \in DOMAIN users') =>
           Held(users'[pollChat]) \subseteq sinceReg'[pollChat]]_vars

-----------------------------------------------------------------------------
(* C28: the wallet the polling thread asks the venue about *)

\* C28: every query the polling loop makes for a chat that has a registration
\* (get_order_matches of the fill check, get_open_orders of the new-order check
\* and of the price-alert check) is made for the wallet address registered for
\* the chat at the time of the query, also when the chat has registered another
\* address since the cycle began.
C28_QueriesRegisteredWallet ==
    [][(/\ pollPc \in {"fill_fetch", "order_fetch", "alert_fetch"}
        /\ pollPc' # pollPc
        /\ pollChat \in DOMAIN users) =>
           pollUsers[pollChat] = users[pollChat].wallet_address]_vars

-----------------------------------------------------------------------------
(* A chat that registers while the bot runs: the User Store is empty when the
   loops start, and the venue reports a match and an open order that do not
   change afterwards *)

InitLate ==
    /\ users = EmptyMap
    /\ userOrder = <<>>
    /\ disk = users
    /\ diskFlaky = FALSE
    /\ malformed = FALSE
    /\ marketFlaky = FALSE
    /\ phase = "run"
    /\ initQueue = <<>>
    /\ fills = <<1>>
    /\ openOrders = {11}
    /\ book = StartBook
    /\ Idle
    /\ startKnown = {}

LateInbound == {[chat |-> "c1", command |-> "/register", args |-> AddrUpper]}

NextLate ==
    \/ Poll
    \/ \E m \in LateInbound : handle_register(m)
    \/ CmdReply

SpecLate == InitLate /\ [][NextLate]_vars

-----------------------------------------------------------------------------
(* C29: the activity the venue reports when a chat registers *)

\* the <<kind, id>> the venue reports for the wallet a chat is registered with
VenueReports(c) ==
    IF c \notin DOMAIN users THEN {}
    ELSE {<<"tx", t>> : t \in Range(MatchesFor(users[c].wallet_address))}
             \cup {<<"order", o>> : o \in Range(OpenOrdersFor(users[c].wallet_address))}

\* C29: for a chat that registers with /register while the bot is running, the
\* fills and open orders that the venue reports for the wallet at the time of
\* the registration are never notified as "filled" or "placed". Every
\* registration of this specification is made while the bot runs, and what the
\* venue reports is what it reported then.
C29_OnlyLaterActivityNotified ==
    \A i \in 1..Len(sent) :
        /\ sent[i].kind = "filled" => <<"tx", sent[i].id>> \notin VenueReports(sent[i].to)
        /\ sent[i].kind = "placed" => <<"order", sent[i].id>> \notin VenueReports(sent[i].to)
====
